---- MODULE Spec2Model ----
(***************************************************************************)
(* vhotplug: the orchestrator that attaches and detaches host USB and PCI  *)
(* devices to QEMU virtual machines (src/vhotplug/device.py), the udev /   *)
(* VM-restart monitor loop (src/vhotplug/vhotplug.py), the API request     *)
(* handlers (src/vhotplug/apiserver.py), the state store                   *)
(* (src/vhotplug/devicestate.py), the rule lookup (src/vhotplug/config.py) *)
(* and the QEMU link (src/vhotplug/qemulink.py).                           *)
(*                                                                         *)
(* Every handler is one action.  Inside an action the code is a chain of   *)
(* operators over a record S that carries the state store, the guests and  *)
(* the commands and notifications produced so far; S.exc is the pending    *)
(* RuntimeError ("" when none).                                            *)
(***************************************************************************)
EXTENDS Integers, Sequences, FiniteSets, TLC

None == "none"

(***************************************************************************)
(* Configuration and host inventory used for checking.                     *)
(***************************************************************************)
VmList == <<"vm1", "vm2">>
VMs == {"vm1", "vm2"}
VmType(v) == "qemu"

UsbDevs == {"u1", "u2", "u3"}
PciDevs == {"p1", "p2", "p3"}
EvdevDevs == {"e1"}
Devs == UsbDevs \cup PciDevs

\* order of udev enumeration (list_devices)
UsbList == <<"u1", "u2", "u3">>
PciList == <<"p1", "p2", "p3">>
EvdevList == <<"e1">>

IsUsb(d) == d \in UsbDevs

UsbAttr ==
  [u \in UsbDevs |->
     CASE u = "u1" -> [vid |-> "046d", pid |-> "c52b", serial |-> "A1", busnum |-> 1, devnum |-> 2,
                       boot |-> FALSE, hub |-> FALSE]
       [] u = "u2" -> [vid |-> "04f2", pid |-> "b751", serial |-> "B2", busnum |-> 1, devnum |-> 3,
                       boot |-> FALSE, hub |-> FALSE]
       [] u = "u3" -> [vid |-> "0781", pid |-> "5581", serial |-> "C3", busnum |-> 2, devnum |-> 2,
                       boot |-> TRUE, hub |-> FALSE]]

PciAttr ==
  [p \in PciDevs |->
     CASE p = "p1" -> [address |-> "0000:01:00.0", vid |-> "10de", did |-> "1c82"]
       [] p = "p2" -> [address |-> "0000:01:00.1", vid |-> "10de", did |-> "0fb9"]
       [] p = "p3" -> [address |-> "0000:02:00.0", vid |-> "8086", did |-> "15f3"]]

\* IOMMU groups of the host (sorted member lists, pci.py get_iommu_group_devices)
get_iommu_group_devices(p) == IF p \in {"p1", "p2"} THEN <<"p1", "p2">> ELSE <<p>>

\* devices every VM already has in its initial configuration (get_pci_vmm_args)
InitialGuest == [v \in VMs |-> IF v = "vm2" THEN {"p3"} ELSE {}]

\* number of PCIe root ports (bridges) of each guest
NumBridges == 3

(***************************************************************************)
(* Rules.  A matcher is modelled by the set of devices it matches.  The    *)
(* daemon runs with one of two configuration files: "base", or "split", in *)
(* which p2 has a rule of its own ahead of the rule of its IOMMU group and *)
(* the rules of u1 and of p3 set skipOnSuspend.                            *)
(***************************************************************************)
VARIABLE config

UsbRules ==
  << [disable |-> FALSE, allow |-> <<{"u1", "u3"}>>, deny |-> <<>>,
      targetVm |-> "vm1", allowedVms |-> <<>>, skipOnSuspend |-> config = "split"],
     [disable |-> FALSE, allow |-> <<{"u2"}>>, deny |-> <<>>,
      targetVm |-> None, allowedVms |-> <<"vm1", "vm2">>, skipOnSuspend |-> FALSE] >>

PciRules ==
  << [disable |-> config # "split", allow |-> <<{"p2"}>>, deny |-> <<>>,
      targetVm |-> "vm2", skipOnSuspend |-> TRUE,
      pciIommuAddAll |-> FALSE, pciIommuSkipIfShared |-> FALSE],
     [disable |-> FALSE, allow |-> <<{"p1", "p2"}>>, deny |-> <<>>,
      targetVm |-> "vm1", skipOnSuspend |-> FALSE,
      pciIommuAddAll |-> TRUE, pciIommuSkipIfShared |-> FALSE],
     [disable |-> FALSE, allow |-> <<{"p3"}>>, deny |-> <<>>,
      targetVm |-> "vm2", skipOnSuspend |-> config = "split",
      pciIommuAddAll |-> FALSE, pciIommuSkipIfShared |-> FALSE] >>

EvdevRules ==
  << [disable |-> FALSE, allow |-> <<{"e1"}>>, deny |-> <<>>, targetVm |-> "vm1"] >>

NoInfo == [found |-> FALSE, target_vm |-> None, allowed_vms |-> <<>>, skip_on_suspend |-> FALSE,
           pci_iommu_add_all |-> FALSE, pci_iommu_skip_if_shared |-> FALSE, order |-> 0]

SeqToSet(s) == {s[i] : i \in 1..Len(s)}

\* index of the first matcher of the list that matches d, 0 when none does
RECURSIVE FirstMatch(_, _, _)
FirstMatch(ms, d, i) ==
  IF i > Len(ms) THEN 0 ELSE IF d \in ms[i] THEN i ELSE FirstMatch(ms, d, i + 1)

\* the allow / deny evaluation of one rule
RuleFound(rule, d) ==
  LET a == FirstMatch(rule.allow, d, 1) # 0
  IN IF FirstMatch(rule.deny, d, 1) # 0 THEN FALSE ELSE a

RECURSIVE vm_for_usb_device_from(_, _)
vm_for_usb_device_from(u, i) ==
  IF i > Len(UsbRules) THEN NoInfo
  ELSE LET rule == UsbRules[i] IN
       IF rule.disable THEN vm_for_usb_device_from(u, i + 1)
       ELSE IF RuleFound(rule, u)
            THEN IF rule.targetVm = None /\ rule.allowedVms = <<>>
                 THEN vm_for_usb_device_from(u, i + 1)
                 ELSE [NoInfo EXCEPT !.found = TRUE, !.target_vm = rule.targetVm,
                                     !.allowed_vms = rule.allowedVms,
                                     !.skip_on_suspend = rule.skipOnSuspend]
            ELSE vm_for_usb_device_from(u, i + 1)

vm_for_usb_device(u) == vm_for_usb_device_from(u, 1)

\* number of allow matchers the loop of one rule visits before it stops
AllowVisited(rule, d) ==
  LET k == FirstMatch(rule.allow, d, 1) IN IF k = 0 THEN Len(rule.allow) ELSE k

RECURSIVE vm_for_pci_device_from(_, _, _)
vm_for_pci_device_from(p, i, order) ==
  IF i > Len(PciRules) THEN NoInfo
  ELSE LET rule == PciRules[i] IN
       IF rule.disable THEN vm_for_pci_device_from(p, i + 1, order)
       ELSE LET o2 == order + AllowVisited(rule, p) IN
            IF RuleFound(rule, p) /\ rule.targetVm # None
            THEN [NoInfo EXCEPT !.found = TRUE, !.target_vm = rule.targetVm,
                                !.skip_on_suspend = rule.skipOnSuspend,
                                !.pci_iommu_add_all = rule.pciIommuAddAll,
                                !.pci_iommu_skip_if_shared = rule.pciIommuSkipIfShared,
                                !.order = o2]
            ELSE vm_for_pci_device_from(p, i + 1, o2)

vm_for_pci_device(p) == vm_for_pci_device_from(p, 1, 0)

RECURSIVE vm_for_evdev_device_from(_, _)
vm_for_evdev_device_from(e, i) ==
  IF i > Len(EvdevRules) THEN NoInfo
  ELSE LET rule == EvdevRules[i] IN
       IF ~rule.disable /\ RuleFound(rule, e) /\ rule.targetVm # None
       THEN [NoInfo EXCEPT !.found = TRUE, !.target_vm = rule.targetVm]
       ELSE vm_for_evdev_device_from(e, i + 1)

vm_for_evdev_device(e) == vm_for_evdev_device_from(e, 1)

vm_for_device(d) ==
  IF d \in UsbDevs THEN vm_for_usb_device(d)
  ELSE IF d \in PciDevs THEN vm_for_pci_device(d)
  ELSE vm_for_evdev_device(d)

get_vm(name) == IF name \in SeqToSet(VmList) THEN name ELSE None

(***************************************************************************)
(* Device identities.                                                      *)
(***************************************************************************)
persistent_id(d) ==
  IF IsUsb(d)
  THEN "usb-" \o UsbAttr[d].vid \o ":" \o UsbAttr[d].pid \o ":" \o UsbAttr[d].serial
  ELSE "pci-" \o PciAttr[d].address

Pids == {persistent_id(d) : d \in Devs}

is_boot_device(d) == IsUsb(d) /\ UsbAttr[d].boot
is_usb_hub(u) == UsbAttr[u].hub

\* f"usb{usb_info.busnum}{usb_info.devnum}": the decimal digits of the two numbers,
\* one after the other
usb_id(usb_info) == "usb" \o ToString(usb_info.busnum) \o ToString(usb_info.devnum)

_qemu_id_usb(u) == usb_id(UsbAttr[u])
_qemu_id_pci(p) == "pci-" \o PciAttr[p].address
_qemu_id_evdev(e) == "evdev-" \o e
VidDid(p) == <<PciAttr[p].vid, PciAttr[p].did>>

(***************************************************************************)
(* Rule evaluation in detail (config.py), over explicit matcher and device  *)
(* records.  An optional boolean key is "absent", "true" or "false"; an     *)
(* absent string key is "", an absent number key is 0 (None, "" and 0 are   *)
(* all falsy in the tests of _match_usb).  The matchers drawn below have no *)
(* vendorName, productName and interface keys, so those two groups of       *)
(* _match_usb never match and are left out.                                 *)
(***************************************************************************)
_disabled(node) ==
  IF node.disable # "absent" THEN node.disable = "true"
  ELSE IF node.enable # "absent" THEN node.enable # "true"
  ELSE FALSE

\* str.casefold on the identifiers used here
casefold(x) ==
  CASE x = "046D" -> "046d"
    [] x = "C52B" -> "c52b"
    [] OTHER -> x

\* variant: the last hop of the port path
root_port_last(usb_info) ==
  IF usb_info.ports # <<>> THEN usb_info.ports[Len(usb_info.ports)] ELSE 0

root_port(usb_info) == IF usb_info.ports # <<>> THEN usb_info.ports[1] ELSE 0

\* variant: one of the two identifiers suffices
match_vid_or_pid(usb_info, usb_rule) ==
  \/ /\ usb_rule.vendorId # "" /\ usb_info.vid # ""
     /\ casefold(usb_info.vid) = casefold(usb_rule.vendorId)
  \/ /\ usb_rule.productId # "" /\ usb_info.pid # ""
     /\ casefold(usb_info.pid) = casefold(usb_rule.productId)

\* the vendorId / productId group of _match_usb
match_vid_pid(usb_info, usb_rule) ==
  /\ usb_rule.vendorId # "" /\ usb_info.vid # ""
  /\ casefold(usb_info.vid) = casefold(usb_rule.vendorId)
  /\ usb_rule.productId # "" /\ usb_info.pid # ""
  /\ casefold(usb_info.pid) = casefold(usb_rule.productId)

\* the bus / port group of _match_usb
match_bus_port(usb_info, usb_rule) ==
  /\ usb_rule.bus # 0 /\ usb_info.busnum # 0 /\ usb_info.busnum = usb_rule.bus
  /\ usb_rule.port # 0 /\ root_port(usb_info) # 0 /\ root_port(usb_info) = usb_rule.port

\* the deviceClass / deviceSubclass / deviceProtocol group of _match_usb
match_device_class(usb_info, usb_rule) ==
  /\ usb_rule.deviceClass # 0 /\ usb_rule.deviceClass = usb_info.device_class
  /\ usb_rule.deviceSubclass = 0 \/ usb_rule.deviceSubclass = usb_info.device_subclass
  /\ usb_rule.deviceProtocol = 0 \/ usb_rule.deviceProtocol = usb_info.device_protocol

_match_usb(usb_info, usb_rule) ==
  IF _disabled(usb_rule) THEN FALSE
  ELSE \/ match_vid_pid(usb_info, usb_rule)
       \/ match_bus_port(usb_info, usb_rule)
       \/ match_device_class(usb_info, usb_rule)

\* variant: the deny list is ignored
allow_deny_allow_only(usb_info, rule) ==
  \E j \in 1..Len(rule.allow) : _match_usb(usb_info, rule.allow[j])

\* the allow loop and the deny loop of one rule
allow_deny(usb_info, rule) ==
  IF \E j \in 1..Len(rule.deny) : _match_usb(usb_info, rule.deny[j]) THEN FALSE
  ELSE \E j \in 1..Len(rule.allow) : _match_usb(usb_info, rule.allow[j])

\* vm_for_usb_device over the rule list usbPassthrough, from rule i on
RECURSIVE vm_for_usb_device_scan(_, _, _)
vm_for_usb_device_scan(usbPassthrough, usb_info, i) ==
  IF i > Len(usbPassthrough) THEN NoInfo
  ELSE IF _disabled(usbPassthrough[i]) \/ ~allow_deny(usb_info, usbPassthrough[i])
          \/ (usbPassthrough[i].targetVm = None /\ usbPassthrough[i].allowedVms = <<>>)
       THEN vm_for_usb_device_scan(usbPassthrough, usb_info, i + 1)
  ELSE [NoInfo EXCEPT !.found = TRUE, !.target_vm = usbPassthrough[i].targetVm,
                      !.allowed_vms = usbPassthrough[i].allowedVms,
                      !.skip_on_suspend = usbPassthrough[i].skipOnSuspend]

vm_for_usb_device_in(usbPassthrough, usb_info) ==
  vm_for_usb_device_scan(usbPassthrough, usb_info, 1)

(***************************************************************************)
(* Bounds of the exploration.                                              *)
(***************************************************************************)
MaxSteps == 2
MaxFailFrom == 2
\* highest bus and port number, and longest rule list, of the rule lookups exercised
MaxPort == 2
MaxRules == 2
MaxLinks == 4

(***************************************************************************)
(* State.                                                                  *)
(***************************************************************************)
VARIABLES
  pc,              \* "start": before the startup pass; "run": monitor loop; "dead": loop ended
  attach_connected,\* the --attach-connected flag
  present,         \* USB devices plugged into the host
  booted,          \* booted[v]: the control socket of v exists and accepts connections
  created,         \* sockets whose creation the file watcher has not reported yet
  runtime,         \* usb_device_vm_map and pci_device_vm_map of DeviceState
  selected_vms,    \* DeviceState.selected_vms, keyed by persistent id
  disconnected_devices, \* DeviceState.disconnected_devices
  guest,           \* guest[v]: host devices the guest of v currently holds
  held,            \* <<d, v>>: a device_add of d on v succeeded and no device_del since
  driver,          \* driver[p]: kernel driver bound to PCI device p
  last,            \* what the last handler did: commands sent, notifications, result
  steps,
  query,           \* the call under evaluation when a single function is exercised
  persistent,      \* DeviceState.persistent
  disk,            \* the JSON document at DeviceState.db_path
  flow,            \* flow[f]: where coroutine f stands in a VMM call
  links            \* the QEMULink objects constructed so far, each with its lock

vars == <<pc, attach_connected, present, booted, created, runtime, selected_vms,
          disconnected_devices, guest, held, driver, last, steps, query, persistent, disk,
          flow, links, config>>

NoQuery == [op |-> "none"]

\* the coroutines of the event loop: the monitor loop and two API requests
Flows == {"monitor", "api1", "api2"}
Idle == [at |-> "idle", vm |-> None, link |-> 0]

\* no file at db_path
NoDisk == [exists |-> FALSE, selected_vms |-> [i \in Pids |-> None],
           disconnected_devices |-> <<>>]

\* list(a_set): the elements in some order
RECURSIVE SetToList(_)
SetToList(s) ==
  IF s = {} THEN <<>> ELSE LET x == CHOOSE x \in s : TRUE IN <<x>> \o SetToList(s \ {x})

\* the document json.dump writes for the two persistent collections
Document(sel, disc) ==
  [exists |-> TRUE, selected_vms |-> sel, disconnected_devices |-> SetToList(disc)]

\* DeviceState._load: the two collections as read from db_path, empty without a file
_load(isPersistent, file) ==
  IF isPersistent /\ file.exists
  THEN [selected_vms |-> file.selected_vms,
        disconnected_devices |-> SeqToSet(file.disconnected_devices)]
  ELSE [selected_vms |-> [i \in Pids |-> None], disconnected_devices |-> {}]

NoLast == [op |-> "init", dev |-> None, vm |-> None, cmds |-> <<>>, notes |-> <<>>,
           log |-> <<>>, result |-> None, error |-> ""]

\* the state database DeviceState._load may find: empty, left by an earlier run in
\* which the user selected vm2 for u2 and permanently detached p2, or left by one in
\* which the user permanently detached p3
StateFiles ==
  { [selected_vms |-> [i \in Pids |-> None], disconnected_devices |-> {}],
    [selected_vms |-> [i \in Pids |-> IF i = persistent_id("u2") THEN "vm2" ELSE None],
     disconnected_devices |-> {persistent_id("p2")}],
    [selected_vms |-> [i \in Pids |-> None],
     disconnected_devices |-> {persistent_id("p3")}] }

\* the state after construction, whatever the configuration file
Boot ==
  /\ pc = "start"
  /\ attach_connected \in BOOLEAN
  /\ present = UsbDevs
  /\ booted \in [VMs -> BOOLEAN]
  /\ created = {}
  /\ runtime = [d \in Devs |-> None]
  /\ persistent = TRUE
  /\ \E j \in StateFiles : disk = Document(j.selected_vms, j.disconnected_devices)
  /\ selected_vms = _load(persistent, disk).selected_vms
  /\ disconnected_devices = _load(persistent, disk).disconnected_devices
  /\ guest = [v \in VMs |-> IF booted[v] THEN InitialGuest[v] ELSE {}]
  /\ held = {}
  /\ driver = [p \in PciDevs |-> IF p \in InitialGuest["vm2"] THEN "vfio-pci" ELSE "host"]
  /\ last = NoLast
  /\ steps = 0
  /\ query = NoQuery
  /\ flow = [f \in Flows |-> Idle]
  /\ links = <<>>

Init == config = "base" /\ Boot

(***************************************************************************)
(* The working record of a handler and the outcome oracle of one handler   *)
(* run.  O.vms are the VMs whose QMP commands answer with an error during  *)
(* this run, from the O.from-th command of the run on (every QMP error is  *)
(* taken to persist through the retries of _execute); O.vfio tells whether *)
(* the sysfs writes of the VFIO rebind succeed.                            *)
(***************************************************************************)
Oracles ==
  { o \in [vms : SUBSET VMs, from : 1..MaxFailFrom, vfio : BOOLEAN] :
      /\ Cardinality(o.vms) <= 1
      /\ o.vms = {} => o.from = 1
      /\ ~o.vfio => o.vms = {} }

Snapshot ==
  [rt |-> runtime, sel |-> selected_vms, disc |-> disconnected_devices, guest |-> guest,
   held |-> held, drv |-> driver, cmds |-> <<>>, notes |-> <<>>, log |-> <<>>, exc |-> "",
   disk |-> disk]

\* A RuntimeError is pending in S.  Every step below leaves a state with a pending
\* error as it is: the rest of the function body is skipped until an except clause.
Failed(S) == S.exc # ""
Raise(S, e) == IF Failed(S) THEN S ELSE [S EXCEPT !.exc = e]
\* except RuntimeError: the error is logged and the handler goes on
Caught(S) == IF Failed(S) THEN [S EXCEPT !.exc = "", !.log = Append(@, S.exc)] ELSE S
Sent(S, c, v, d, id) ==
  IF Failed(S) THEN S
  ELSE [S EXCEPT !.cmds = Append(@, [cmd |-> c, vm |-> v, dev |-> d, id |-> id])]
Notify(S, ev, d, v) ==
  IF Failed(S) THEN S
  ELSE [S EXCEPT !.notes = Append(@, [event |-> ev, dev |-> d, vm |-> v])]

\* the next command of this run to v is answered with an error
CmdFails(S, O, v) == v \in O.vms /\ Len(S.cmds) + 1 >= O.from

\* _execute: the command reaches the VMM; an error answer persists through the
\* vm_retry_count attempts and is raised as RuntimeError
_execute(S, O, c, v, d, id) ==
  IF CmdFails(S, O, v) THEN Raise(Sent(S, c, v, d, id), c \o " failed")
  ELSE Sent(S, c, v, d, id)

\* what a successful device_add / device_del does to the guest
Plugged(S, v, d) ==
  IF Failed(S) THEN S
  ELSE [S EXCEPT !.guest[v] = @ \cup {d},
                 !.held = IF d \in UsbDevs \cup PciDevs THEN @ \cup {<<d, v>>} ELSE @]
Unplugged(S, v, gone) ==
  IF Failed(S) THEN S
  ELSE [S EXCEPT !.guest[v] = @ \ gone, !.held = @ \ {<<g, v>> : g \in gone}]

\* wait_for_unix_socket with vm_boot_timeout = 1 and vm_wait_after_boot = 0
_wait_for_boot(v) == booted[v]

\* guest devices that sit on a PCIe root port of the guest
OnBridge(S, v) == {g \in S.guest[v] : g \in PciDevs \cup EvdevDevs}

_find_usb_device(S, v, qemuid) ==
  \E g \in S.guest[v] : g \in UsbDevs /\ _qemu_id_usb(g) = qemuid

\* guest devices whose vendor and device id equal those of p
_find_pci_device(S, v, p) == {g \in S.guest[v] : g \in PciDevs /\ VidDid(g) = VidDid(p)}

\* "info usb" goes through _execute_simple: its failure reads as "no such id"
add_usb_device(S, O, v, u) ==
  LET qemuid == _qemu_id_usb(u)
  IN IF Failed(S) \/ ~_wait_for_boot(v) THEN S
     ELSE IF ~CmdFails(S, O, v) /\ _find_usb_device(S, v, qemuid)
          THEN Sent(S, "info usb", v, u, qemuid)
     ELSE Plugged(_execute(Sent(S, "info usb", v, u, qemuid), O, "device_add", v, u, qemuid),
                  v, u)

remove_usb_device(S, O, v, u) ==
  LET qemuid == _qemu_id_usb(u)
      gone == {g \in S.guest[v] : g \in UsbDevs /\ _qemu_id_usb(g) = qemuid}
  IN IF Failed(S) THEN S
     ELSE IF ~booted[v] THEN Raise(S, "connect failed")
     ELSE IF gone = {}
          THEN Raise(_execute(S, O, "device_del", v, u, qemuid), "Device not found")
     ELSE Unplugged(_execute(S, O, "device_del", v, u, qemuid), v, gone)

\* _add_pci_device: the first empty bridge takes the device
_add_pci_device(S, O, v, d, qemuid) ==
  IF Failed(S) THEN S
  ELSE IF Cardinality(OnBridge(S, v)) >= NumBridges
       THEN Raise(_execute(S, O, "query-pci", v, d, qemuid), "No available PCI ports found")
  ELSE Plugged(_execute(_execute(S, O, "query-pci", v, d, qemuid),
                        O, "device_add", v, d, qemuid), v, d)

add_pci_device(S, O, v, p) ==
  IF Failed(S) \/ ~_wait_for_boot(v) THEN S
  ELSE IF _find_pci_device(S, v, p) # {}
       THEN _execute(S, O, "query-pci", v, p, _qemu_id_pci(p))
  ELSE _add_pci_device(_execute(S, O, "query-pci", v, p, _qemu_id_pci(p)),
                       O, v, p, _qemu_id_pci(p))

\* except RuntimeError with no raise and, unless the device is busy, no log record
Swallowed(S) == IF Failed(S) THEN [S EXCEPT !.exc = ""] ELSE S

\* every RuntimeError of the add ends in the except clause of add_evdev_device
add_evdev_device(S, O, v, e) ==
  IF Failed(S) \/ ~_wait_for_boot(v) THEN S
  ELSE Swallowed(_add_pci_device(S, O, v, e, _qemu_id_evdev(e)))

remove_pci_device_by_vid_did(S, O, v, p) ==
  LET fnd == _find_pci_device(S, v, p)
      g == CHOOSE x \in fnd : TRUE
  IN IF Failed(S) THEN S
     ELSE IF ~booted[v] THEN Raise(S, "connect failed")
     ELSE IF fnd = {} THEN _execute(S, O, "query-pci", v, p, _qemu_id_pci(p))
     ELSE Unplugged(_execute(_execute(S, O, "query-pci", v, p, _qemu_id_pci(p)),
                             O, "device_del", v, g, _qemu_id_pci(g)), v, {g})

pause(S, O, v) ==
  IF Failed(S) \/ ~_wait_for_boot(v) THEN S ELSE _execute(S, O, "stop", v, None, "")

resume(S, O, v) ==
  IF Failed(S) \/ ~_wait_for_boot(v) THEN S ELSE _execute(S, O, "cont", v, None, "")

\* the query of is_pci_dev_connected; its answer is _find_pci_device(S, v, p) # {}
is_pci_dev_connected(S, O, v, p) ==
  IF Failed(S) THEN S
  ELSE IF ~_wait_for_boot(v) THEN Raise(S, "VM is not booted")
  ELSE _execute(S, O, "query-pci", v, p, _qemu_id_pci(p))

(***************************************************************************)
(* VMM facade (vmm.py).  Every configured VM is of type qemu.              *)
(***************************************************************************)
vmm_add_device(S, O, v, d) ==
  IF d \in UsbDevs THEN add_usb_device(S, O, v, d)
  ELSE IF d \in PciDevs THEN add_pci_device(S, O, v, d)
  ELSE add_evdev_device(S, O, v, d)

vmm_remove_device(S, O, v, d) ==
  IF d \in UsbDevs THEN remove_usb_device(S, O, v, d)
  ELSE remove_pci_device_by_vid_did(S, O, v, d)

vmm_pause(S, O, v) == pause(S, O, v)
vmm_resume(S, O, v) == resume(S, O, v)
vmm_is_pci_dev_connected(S, O, v, p) == is_pci_dev_connected(S, O, v, p)

(***************************************************************************)
(* VFIO helper (pci.py).  An OSError of a sysfs write is caught inside     *)
(* setup_vfio, so the caller never sees a failure.                         *)
(***************************************************************************)
_bind_vfio_pci(S, O, p) ==
  IF S.drv[p] = "vfio-pci" THEN S
  ELSE IF O.vfio THEN [S EXCEPT !.drv[p] = "vfio-pci"] ELSE S

RECURSIVE setup_vfio_from(_, _, _, _)
setup_vfio_from(S, O, devices, i) ==
  IF i > Len(devices) THEN S
  ELSE IF S.drv[devices[i]] # "vfio-pci" /\ ~O.vfio THEN S
  ELSE setup_vfio_from(_bind_vfio_pci(S, O, devices[i]), O, devices, i + 1)

setup_vfio(S, O, p) == setup_vfio_from(S, O, get_iommu_group_devices(p), 1)

(***************************************************************************)
(* Device state (devicestate.py) and notifications (apiserver.py).         *)
(***************************************************************************)
\* variant: the attach is never recorded
set_vm_for_device_dropped(S, d, v) == S
set_vm_for_device(S, d, v) == IF Failed(S) THEN S ELSE [S EXCEPT !.rt[d] = v]
remove_vm_for_device(S, d) == IF Failed(S) THEN S ELSE [S EXCEPT !.rt[d] = None]
\* variant: the document keeps its old list of disconnected devices
_save_selected_only(S) ==
  IF Failed(S) \/ ~persistent THEN S
  ELSE [S EXCEPT !.disk = [exists |-> TRUE, selected_vms |-> S.sel,
                           disconnected_devices |-> S.disk.disconnected_devices]]

\* DeviceState._save: the whole document is rewritten when persistence is enabled
_save(S) ==
  IF Failed(S) \/ ~persistent THEN S
  ELSE [S EXCEPT !.disk = Document(S.sel, S.disc)]

select_vm_for_device(S, d, v) ==
  IF Failed(S) THEN S ELSE _save([S EXCEPT !.sel[persistent_id(d)] = v])
clear_selected_vm_for_device(S, d) ==
  IF Failed(S) \/ S.sel[persistent_id(d)] = None THEN S
  ELSE _save([S EXCEPT !.sel[persistent_id(d)] = None])
set_disconnected(S, d) ==
  IF Failed(S) THEN S ELSE _save([S EXCEPT !.disc = @ \cup {persistent_id(d)}])
\* variant: the flag survives an attach
clear_disconnected_kept(S, d) == S

clear_disconnected(S, d) ==
  IF Failed(S) \/ persistent_id(d) \notin S.disc THEN S
  ELSE _save([S EXCEPT !.disc = @ \ {persistent_id(d)}])
is_disconnected(S, d) == persistent_id(d) \in S.disc

notify_dev_attached(S, d, v) ==
  Notify(S, IF IsUsb(d) THEN "usb_attached" ELSE "pci_attached", d, v)
notify_dev_detached(S, d, v) ==
  Notify(S, IF IsUsb(d) THEN "usb_detached" ELSE "pci_detached", d, v)
notify_usb_select_vm(S, d) == Notify(S, "usb_select_vm", d, None)

(***************************************************************************)
(* Orchestrator (device.py).                                               *)
(***************************************************************************)
\* variant: the stored selection is returned whether or not it is still allowed
_autoselect_vm_stored(S, d, allowed_vms) ==
  IF S.sel[persistent_id(d)] # None THEN S.sel[persistent_id(d)] ELSE allowed_vms[1]

_autoselect_vm(S, d, allowed_vms) ==
  LET current_vm_name == S.sel[persistent_id(d)]
  IN IF current_vm_name # None /\ current_vm_name \in SeqToSet(allowed_vms)
     THEN current_vm_name
     ELSE allowed_vms[1]

find_vm_for_device(S, d, check_disconnected) ==
  LET res == vm_for_device(d)
  IN IF ~res.found THEN NoInfo
     ELSE IF is_boot_device(d) THEN NoInfo
     ELSE IF check_disconnected /\ is_disconnected(S, d) THEN NoInfo
     ELSE res

_remove_device_from_vm(S, O, d, v) ==
  notify_dev_detached(remove_vm_for_device(vmm_remove_device(S, O, v, d), d), d, v)

\* an error raised inside "finally" replaces the pending one; otherwise e stays pending
Reraise(R, e) == IF Failed(R) THEN R ELSE [R EXCEPT !.exc = e]

\* variant: the resume is skipped when an error is pending
ResumeUnlessFailed(S, O, v, vm_paused) ==
  IF ~vm_paused \/ Failed(S) THEN S ELSE vmm_resume(S, O, v)

\* the finally clause of the IOMMU-group flows
ResumeIfPaused(S, O, v, vm_paused) ==
  IF ~vm_paused THEN S ELSE Reraise(vmm_resume([S EXCEPT !.exc = ""], O, v), S.exc)

RECURSIVE _remove_iommu_group_from(_, _, _, _, _, _)
_remove_iommu_group_from(S, O, devices, v, i, vm_paused) ==
  IF Failed(S) \/ i > Len(devices) THEN ResumeIfPaused(S, O, v, vm_paused)
  ELSE IF S.rt[devices[i]] # None /\ S.rt[devices[i]] # v
       THEN _remove_iommu_group_from(S, O, devices, v, i + 1, vm_paused)
  ELSE _remove_iommu_group_from(
         _remove_device_from_vm(IF vm_paused THEN S ELSE vmm_pause(S, O, v), O, devices[i], v),
         O, devices, v, i + 1, vm_paused \/ ~Failed(vmm_pause(S, O, v)))

_remove_iommu_group(S, O, devices, v) == _remove_iommu_group_from(S, O, devices, v, 1, FALSE)

remove_device(S, O, d) ==
  LET current_vm_name == S.rt[d]
      shared == d \in PciDevs /\ Len(get_iommu_group_devices(d)) > 1
      res == vm_for_device(d)
  IN IF Failed(S) THEN S
     ELSE IF current_vm_name = None THEN Raise(S, "not attached")
     ELSE IF get_vm(current_vm_name) = None THEN Raise(S, "VM not found")
     ELSE IF shared /\ ~res.found THEN Raise(S, "no rule")
     ELSE IF shared /\ res.pci_iommu_add_all
          THEN _remove_iommu_group(S, O, get_iommu_group_devices(d), current_vm_name)
     ELSE _remove_device_from_vm(S, O, d, current_vm_name)

_attach_device_to_vm(S, O, d, v) ==
  LET current_vm_name == S.rt[d]
      removed == IF current_vm_name # None /\ current_vm_name # v
                 THEN Caught(remove_device(S, O, d))
                 ELSE S
  IN IF Failed(S) THEN S
     ELSE notify_dev_attached(
            clear_disconnected(
              set_vm_for_device(
                vmm_add_device(IF d \in PciDevs THEN setup_vfio(removed, O, d) ELSE removed,
                               O, v, d),
                d, v),
              d),
            d, v)

RECURSIVE _attach_iommu_group_from(_, _, _, _, _, _)
_attach_iommu_group_from(S, O, devices, v, i, vm_paused) ==
  IF Failed(S) \/ i > Len(devices) THEN ResumeIfPaused(S, O, v, vm_paused)
  ELSE IF S.rt[devices[i]] = v
       THEN _attach_iommu_group_from(S, O, devices, v, i + 1, vm_paused)
  ELSE _attach_iommu_group_from(
         _attach_device_to_vm(IF vm_paused THEN S ELSE vmm_pause(S, O, v), O, devices[i], v),
         O, devices, v, i + 1, vm_paused \/ ~Failed(vmm_pause(S, O, v)))

_attach_iommu_group(S, O, devices, v) == _attach_iommu_group_from(S, O, devices, v, 1, FALSE)

\* vms_scope is a set; the empty set stands for None (and for the empty list, which is falsy too)
attach_device(S, O, passthrough_info, d, ask, vms_scope) ==
  LET prompt == passthrough_info.target_vm = None /\ IsUsb(d) /\ ask
      target_vm == IF passthrough_info.target_vm # None THEN passthrough_info.target_vm
                   ELSE _autoselect_vm(S, d, passthrough_info.allowed_vms)
      shared == d \in PciDevs /\ Len(get_iommu_group_devices(d)) > 1
  IN IF Failed(S) THEN S
     ELSE IF prompt THEN notify_usb_select_vm(S, d)
     ELSE IF vms_scope # {} /\ target_vm \notin vms_scope THEN S
     ELSE IF get_vm(target_vm) = None THEN Raise(S, "VM not found")
     ELSE IF shared /\ passthrough_info.pci_iommu_skip_if_shared THEN S
     ELSE IF shared /\ passthrough_info.pci_iommu_add_all
          THEN _attach_iommu_group(S, O, get_iommu_group_devices(d), target_vm)
     ELSE _attach_device_to_vm(S, O, d, target_vm)

_attach_existing_device(S, O, d, selected_vm) ==
  LET res == vm_for_device(d)
      select == res.target_vm = None /\ selected_vm # None
      target_vm == IF res.target_vm # None THEN res.target_vm
                   ELSE IF selected_vm # None THEN selected_vm
                   ELSE _autoselect_vm(S, d, res.allowed_vms)
      selected == IF select THEN select_vm_for_device(S, d, selected_vm) ELSE S
  IN IF Failed(S) THEN S
     ELSE IF is_boot_device(d) THEN Raise(S, "boot device")
     ELSE IF ~res.found THEN Raise(S, "No VM found")
     ELSE IF res.target_vm # None /\ selected_vm # None /\ selected_vm # res.target_vm
          THEN Raise(S, "target VM differs")
     ELSE IF select /\ selected_vm \notin SeqToSet(res.allowed_vms)
          THEN Raise(S, "VM not allowed")
     ELSE IF get_vm(target_vm) = None THEN Raise(selected, "VM not found")
     ELSE _attach_device_to_vm(selected, O, d, target_vm)

\* variant: the device is marked as disconnected before it is removed
_remove_existing_device_marks_first(S, O, d, permanent) ==
  remove_device(IF permanent THEN set_disconnected(S, d) ELSE S, O, d)

_remove_existing_device(S, O, d, permanent) ==
  IF permanent THEN set_disconnected(remove_device(S, O, d), d) ELSE remove_device(S, O, d)

RECURSIVE attach_connected_usb_from(_, _, _, _)
attach_connected_usb_from(S, O, vms_scope, i) ==
  IF i > Len(UsbList) THEN S
  ELSE IF UsbList[i] \notin present \/ is_usb_hub(UsbList[i])
          \/ ~find_vm_for_device(S, UsbList[i], TRUE).found
       THEN attach_connected_usb_from(S, O, vms_scope, i + 1)
  ELSE attach_connected_usb_from(
         Caught(attach_device(S, O, find_vm_for_device(S, UsbList[i], TRUE), UsbList[i],
                              FALSE, vms_scope)),
         O, vms_scope, i + 1)

attach_connected_usb(S, O, vms_scope) == attach_connected_usb_from(S, O, vms_scope, 1)

\* keys of the snapshot list_usb_devices() / list_pci_devices() took, in enumeration order
RECURSIVE Attached(_, _, _)
Attached(S, list, i) ==
  IF i > Len(list) THEN <<>>
  ELSE IF S.rt[list[i]] # None THEN <<list[i]>> \o Attached(S, list, i + 1)
  ELSE Attached(S, list, i + 1)

RECURSIVE detach_connected_usb_from(_, _, _, _, _)
detach_connected_usb_from(S, O, vms_scope, nodes, i) ==
  IF i > Len(nodes) THEN S
  ELSE IF nodes[i] \notin present \/ ~vm_for_device(nodes[i]).found
          \/ vm_for_device(nodes[i]).skip_on_suspend
          \/ (vms_scope # {} /\ S.rt[nodes[i]] \notin vms_scope)
       THEN detach_connected_usb_from(S, O, vms_scope, nodes, i + 1)
  ELSE detach_connected_usb_from(Caught(_remove_existing_device(S, O, nodes[i], FALSE)),
                                 O, vms_scope, nodes, i + 1)

detach_connected_usb(S, O, vms_scope) ==
  detach_connected_usb_from(S, O, vms_scope, Attached(S, UsbList, 1), 1)

\* _get_pci_devices(app_context, False, False), before the sort
RECURSIVE _get_pci_devices_from(_, _)
_get_pci_devices_from(S, i) ==
  IF i > Len(PciList) THEN <<>>
  ELSE LET p == PciList[i]
           passthrough_info == find_vm_for_device(S, p, FALSE)
       IN IF ~passthrough_info.found \/ persistent_id(p) \in S.disc
          THEN _get_pci_devices_from(S, i + 1)
          ELSE <<p>> \o _get_pci_devices_from(S, i + 1)

\* stable insertion of p into a list sorted by rule order
RECURSIVE InsertByOrder(_, _)
InsertByOrder(sorted, p) ==
  IF sorted = <<>> THEN <<p>>
  ELSE IF vm_for_device(sorted[Len(sorted)]).order <= vm_for_device(p).order
       THEN Append(sorted, p)
       ELSE Append(InsertByOrder(SubSeq(sorted, 1, Len(sorted) - 1), p), sorted[Len(sorted)])

RECURSIVE SortByOrder(_, _)
SortByOrder(list, i) ==
  IF i = 0 THEN <<>> ELSE InsertByOrder(SortByOrder(list, i - 1), list[i])

_get_pci_devices(S) ==
  LET devices == _get_pci_devices_from(S, 1) IN SortByOrder(devices, Len(devices))

RECURSIVE attach_connected_pci_from(_, _, _, _, _)
attach_connected_pci_from(S, O, vms_scope, devices, i) ==
  IF i > Len(devices) THEN S
  ELSE attach_connected_pci_from(
         Caught(attach_device(S, O, vm_for_device(devices[i]), devices[i], FALSE, vms_scope)),
         O, vms_scope, devices, i + 1)

attach_connected_pci(S, O, vms_scope) ==
  attach_connected_pci_from(S, O, vms_scope, _get_pci_devices(S), 1)

RECURSIVE detach_connected_pci_from(_, _, _, _, _)
detach_connected_pci_from(S, O, vms_scope, addrs, i) ==
  IF i > Len(addrs) THEN S
  ELSE IF ~vm_for_device(addrs[i]).found
          \/ (vms_scope # {} /\ S.rt[addrs[i]] \notin vms_scope)
          \/ vm_for_device(addrs[i]).skip_on_suspend
       THEN detach_connected_pci_from(S, O, vms_scope, addrs, i + 1)
  ELSE detach_connected_pci_from(Caught(_remove_existing_device(S, O, addrs[i], FALSE)),
                                 O, vms_scope, addrs, i + 1)

detach_connected_pci(S, O, vms_scope) ==
  detach_connected_pci_from(S, O, vms_scope, Attached(S, PciList, 1), 1)

\* variant: the device is looked up and left in the guest
_detach_if_connected_query_only(S, O, v, p) == vmm_is_pci_dev_connected(S, O, v, p)

\* the body of the try block for one permanently disconnected device p of VM v
_detach_if_connected(S, O, v, p) ==
  IF _find_pci_device(S, v, p) # {}
  THEN vmm_remove_device(vmm_is_pci_dev_connected(S, O, v, p), O, v, p)
  ELSE vmm_is_pci_dev_connected(S, O, v, p)

RECURSIVE detach_disconnected_pci_from(_, _, _, _)
detach_disconnected_pci_from(S, O, vms_scope, i) ==
  IF i > Len(PciList) THEN S
  ELSE IF ~is_disconnected(S, PciList[i]) \/ ~vm_for_device(PciList[i]).found
          \/ vm_for_device(PciList[i]).target_vm = None
          \/ (vms_scope # {} /\ vm_for_device(PciList[i]).target_vm \notin vms_scope)
          \/ get_vm(vm_for_device(PciList[i]).target_vm) = None
       THEN detach_disconnected_pci_from(S, O, vms_scope, i + 1)
  ELSE detach_disconnected_pci_from(
         Caught(_detach_if_connected(S, O, vm_for_device(PciList[i]).target_vm, PciList[i])),
         O, vms_scope, i + 1)

detach_disconnected_pci(S, O, vms_scope) == detach_disconnected_pci_from(S, O, vms_scope, 1)

\* EVIOCGRAB fails when a guest already holds the event device
evdev_test_grab(S, e) == \E v \in VMs : e \in S.guest[v]

RECURSIVE attach_connected_evdev_from(_, _, _)
attach_connected_evdev_from(S, O, i) ==
  IF i > Len(EvdevList) THEN S
  ELSE IF ~vm_for_device(EvdevList[i]).found \/ vm_for_device(EvdevList[i]).target_vm = None
          \/ get_vm(vm_for_device(EvdevList[i]).target_vm) = None
          \/ evdev_test_grab(S, EvdevList[i])
       THEN attach_connected_evdev_from(S, O, i + 1)
  ELSE attach_connected_evdev_from(
         Caught(vmm_add_device(S, O, vm_for_device(EvdevList[i]).target_vm, EvdevList[i])),
         O, i + 1)

attach_connected_evdev(S, O) == attach_connected_evdev_from(S, O, 1)

(***************************************************************************)
(* Handlers.                                                               *)
(***************************************************************************)
\* variant: the vm argument of the request is ignored
ScopeAll(vm) == {}

Scope(vm) == IF vm = None THEN {} ELSE {vm}

\* The handler's effects become the new state; op, dev, vm name the handler run.
\* For an API request (api), handle_message answers result=failed when the handler
\* raised RuntimeError and result=ok otherwise.
Commit(S, op, d, vm, api) ==
  /\ runtime' = S.rt
  /\ selected_vms' = S.sel
  /\ disconnected_devices' = S.disc
  /\ guest' = S.guest
  /\ held' = S.held
  /\ driver' = S.drv
  /\ disk' = S.disk
  /\ last' = [op |-> op, dev |-> d, vm |-> vm, cmds |-> S.cmds, notes |-> S.notes,
              log |-> S.log,
              result |-> IF ~api THEN None ELSE IF Failed(S) THEN "failed" ELSE "ok",
              error |-> S.exc]

\* async_main: the startup pass, then the monitor loop starts
async_main ==
  /\ pc = "start"
  /\ \E O \in Oracles :
       Commit(IF attach_connected
              THEN detach_disconnected_pci(
                     attach_connected_pci(
                       attach_connected_usb(attach_connected_evdev(Snapshot, O), O, {}),
                       O, {}),
                     O, {})
              ELSE Snapshot,
              "startup", None, None, FALSE)
  /\ pc' = "run"
  /\ UNCHANGED <<config, query, persistent, flow, links, attach_connected, present, booted, created, steps>>

Running == pc = "run" /\ steps < MaxSteps

\* device_event, action "add".  vhotplug.py:61 awaits the value returned by
\* find_vm_for_device, which device.py:77 defines as a plain function: the await raises
\* TypeError, which "except RuntimeError" does not catch, so the exception leaves
\* device_event, monitor_loop and async_main, and the event loop ends.
device_event_add(u) ==
  /\ Running
  /\ u \notin present
  /\ present' = present \cup {u}
  /\ Commit(Raise(Notify(Snapshot, "usb_connected", u, None), "TypeError"),
            "udev_add", u, None, FALSE)
  /\ pc' = "dead"
  /\ steps' = steps + 1
  /\ UNCHANGED <<config, query, persistent, flow, links, attach_connected, booted, created>>

\* device_event, action "remove"
device_event_remove(u) ==
  /\ Running
  /\ u \in present
  /\ present' = present \ {u}
  /\ \E O \in Oracles :
       Commit(Notify(Caught(remove_device(Snapshot, O, u)), "usb_disconnected", u, None),
              "udev_remove", u, None, FALSE)
  /\ steps' = steps + 1
  /\ UNCHANGED <<config, query, persistent, flow, links, pc, attach_connected, booted, created>>

\* monitor_loop: detect_restart reported created sockets
monitor_loop_restart ==
  /\ Running
  /\ created # {}
  /\ created' = {}
  /\ \E O \in Oracles :
       Commit(IF attach_connected
              THEN attach_connected_usb(
                     detach_disconnected_pci(
                       attach_connected_pci(attach_connected_evdev(Snapshot, O), O, created),
                       O, created),
                     O, created)
              ELSE Snapshot,
              "restart", None, None, FALSE)
  /\ steps' = steps + 1
  /\ UNCHANGED <<config, query, persistent, flow, links, pc, attach_connected, present, booted>>

\* the VMM of v exits: its socket is deleted and the guest is gone
VmStop(v) ==
  /\ Running
  /\ booted[v]
  /\ booted' = [booted EXCEPT ![v] = FALSE]
  /\ guest' = [guest EXCEPT ![v] = {}]
  /\ last' = [NoLast EXCEPT !.op = "vm_stop", !.vm = v]
  /\ steps' = steps + 1
  /\ UNCHANGED <<config, query, persistent, flow, links, disk, pc, attach_connected, present, created, runtime,
                 selected_vms, disconnected_devices, held, driver>>

\* the VMM of v starts: its socket is created, the guest has its initial devices
VmStart(v) ==
  /\ Running
  /\ ~booted[v]
  /\ booted' = [booted EXCEPT ![v] = TRUE]
  /\ guest' = [guest EXCEPT ![v] = InitialGuest[v]]
  /\ created' = created \cup {v}
  /\ last' = [NoLast EXCEPT !.op = "vm_start", !.vm = v]
  /\ steps' = steps + 1
  /\ UNCHANGED <<config, query, persistent, flow, links, disk, pc, attach_connected, present, runtime,
                 selected_vms, disconnected_devices, held, driver>>

\* the VMM of v exits and starts again between two polls of the loop: the socket is
\* deleted and re-created, the new guest has its initial devices only
VmRestart(v) ==
  /\ Running
  /\ booted[v]
  /\ guest' = [guest EXCEPT ![v] = InitialGuest[v]]
  /\ created' = created \cup {v}
  /\ last' = [NoLast EXCEPT !.op = "vm_restart", !.vm = v]
  /\ steps' = steps + 1
  /\ UNCHANGED <<config, query, persistent, flow, links, disk, pc, attach_connected, present, booted, runtime,
                 selected_vms, disconnected_devices, held, driver>>

ApiFrame ==
  /\ steps' = steps + 1
  /\ UNCHANGED <<config, query, persistent, flow, links, pc, attach_connected, present, booted, created>>

\* usb_device_by_node: a device node that is not plugged in raises RuntimeError
usb_device_by_node(S, u) ==
  IF u \in present THEN S ELSE Raise(S, "not found in the system")

\* _on_usb_attach -> attach_existing_usb_device
_on_usb_attach(u, vm) ==
  /\ Running
  /\ \E O \in Oracles :
       Commit(_attach_existing_device(usb_device_by_node(Snapshot, u), O, u, vm),
              "usb_attach", u, vm, TRUE)
  /\ ApiFrame

\* _on_usb_detach -> remove_existing_usb_device(permanent = True)
_on_usb_detach(u) ==
  /\ Running
  /\ \E O \in Oracles :
       Commit(_remove_existing_device(usb_device_by_node(Snapshot, u), O, u, TRUE),
              "usb_detach", u, None, TRUE)
  /\ ApiFrame

_on_usb_suspend(vm) ==
  /\ Running
  /\ \E O \in Oracles :
       Commit(detach_connected_usb(Snapshot, O, Scope(vm)), "usb_suspend", None, vm, TRUE)
  /\ ApiFrame

_on_usb_resume(vm) ==
  /\ Running
  /\ \E O \in Oracles :
       Commit(attach_connected_usb(Snapshot, O, Scope(vm)), "usb_resume", None, vm, TRUE)
  /\ ApiFrame

\* _on_pci_attach -> attach_existing_pci_device
_on_pci_attach(p, vm) ==
  /\ Running
  /\ \E O \in Oracles :
       Commit(_attach_existing_device(Snapshot, O, p, vm), "pci_attach", p, vm, TRUE)
  /\ ApiFrame

\* _on_pci_detach -> remove_existing_pci_device(permanent = True)
_on_pci_detach(p) ==
  /\ Running
  /\ \E O \in Oracles :
       Commit(_remove_existing_device(Snapshot, O, p, TRUE), "pci_detach", p, None, TRUE)
  /\ ApiFrame

_on_pci_suspend(vm) ==
  /\ Running
  /\ \E O \in Oracles :
       Commit(detach_connected_pci(Snapshot, O, Scope(vm)), "pci_suspend", None, vm, TRUE)
  /\ ApiFrame

_on_pci_resume(vm) ==
  /\ Running
  /\ \E O \in Oracles :
       Commit(attach_connected_pci(Snapshot, O, Scope(vm)), "pci_resume", None, vm, TRUE)
  /\ ApiFrame

VmArg == VMs \cup {None}

Next ==
  \/ async_main
  \/ \E u \in UsbDevs : device_event_add(u)
  \/ \E u \in UsbDevs : device_event_remove(u)
  \/ monitor_loop_restart
  \/ \E v \in VMs : VmStop(v)
  \/ \E v \in VMs : VmStart(v)
  \/ \E v \in VMs : VmRestart(v)
  \/ \E u \in UsbDevs, vm \in VmArg : _on_usb_attach(u, vm)
  \/ \E u \in UsbDevs : _on_usb_detach(u)
  \/ \E vm \in VmArg : _on_usb_suspend(vm)
  \/ \E vm \in VmArg : _on_usb_resume(vm)
  \/ \E p \in PciDevs, vm \in VmArg : _on_pci_attach(p, vm)
  \/ \E p \in PciDevs : _on_pci_detach(p)
  \/ \E vm \in VmArg : _on_pci_suspend(vm)
  \/ \E vm \in VmArg : _on_pci_resume(vm)

Spec == Init /\ [][Next]_vars

\* the daemon started with the configuration file "split"
SplitInit == config = "split" /\ Boot
SplitSpec == SplitInit /\ [][Next]_vars

(***************************************************************************)
(* The rule lookup exercised on its own: a behaviour evaluates one function *)
(* of config.py on an input drawn from the sets below and keeps input and   *)
(* result in query.                                                         *)
(***************************************************************************)
Flags == {"absent", "true", "false"}
Nodes == [disable : Flags, enable : Flags]

\* port paths parsed from sys_name by _get_ports: at most two hops here
PortPaths ==
  {<<>>} \cup {<<a>> : a \in 1..MaxPort} \cup {<<a, b>> : a \in 1..MaxPort, b \in 1..MaxPort}

UsbInfos ==
  [vid : {"046d", "04f2"}, pid : {"c52b", "b751"}, busnum : 1..MaxPort, ports : PortPaths,
   device_class : {0, 3}, device_subclass : {1}, device_protocol : {1}]

Matchers ==
  [disable : {"absent", "true"}, enable : {"absent"},
   vendorId : {"", "046d", "046D"}, productId : {"", "c52b", "C52B"},
   bus : 0..MaxPort, port : 0..MaxPort,
   deviceClass : {0, 3}, deviceSubclass : {0}, deviceProtocol : {0}]

NoMatcher == [disable |-> "absent", enable |-> "absent", vendorId |-> "", productId |-> "",
              bus |-> 0, port |-> 0, deviceClass |-> 0, deviceSubclass |-> 0,
              deviceProtocol |-> 0]
MA == [NoMatcher EXCEPT !.vendorId = "046D", !.productId = "c52b"]
MB == [NoMatcher EXCEPT !.bus = 1, !.port = 2]
MC == [NoMatcher EXCEPT !.vendorId = "04f2", !.productId = "b751"]

Info(vid, pid, busnum, ports) ==
  [vid |-> vid, pid |-> pid, busnum |-> busnum, ports |-> ports,
   device_class |-> 0, device_subclass |-> 1, device_protocol |-> 1]
LookupInfos ==
  { Info("046d", "c52b", 1, <<1>>), Info("046d", "b751", 1, <<2, 1>>),
    Info("04f2", "c52b", 2, <<1>>), Info("04f2", "b751", 2, <<>>) }

Policies ==
  { [targetVm |-> None, allowedVms |-> <<>>], [targetVm |-> "vm1", allowedVms |-> <<>>],
    [targetVm |-> None, allowedVms |-> <<"vm1", "vm2">>] }

MakeRule(flags, allow, deny, policy) ==
  [disable |-> flags.disable, enable |-> flags.enable, allow |-> allow, deny |-> deny,
   targetVm |-> policy.targetVm, allowedVms |-> policy.allowedVms, skipOnSuspend |-> FALSE]

\* rules the lists are built from
RulePool ==
  { MakeRule(f, ad[1], ad[2], pol) :
      f \in {[disable |-> "absent", enable |-> "absent"],
             [disable |-> "true", enable |-> "absent"],
             [disable |-> "false", enable |-> "false"]},
      ad \in { <<<<>>, <<MA>>>>, <<<<MA>>, <<>>>>, <<<<MB, MA>>, <<>>>>, <<<<MC>>, <<MB>>>> },
      pol \in Policies }

\* single rules with every allow and deny list of up to two of the matchers
ShortLists == {<<>>} \cup {<<a>> : a \in {MA, MB, MC}} \cup {<<a, b>> : a, b \in {MA, MB, MC}}
WideRules ==
  { MakeRule([disable |-> "absent", enable |-> "absent"], al, de,
             [targetVm |-> "vm1", allowedVms |-> <<>>]) : al \in ShortLists, de \in ShortLists }

RECURSIVE ListsUpTo(_)
ListsUpTo(n) ==
  IF n = 0 THEN {<<>>}
  ELSE ListsUpTo(n - 1)
         \cup {Append(l, r) : l \in {x \in ListsUpTo(n - 1) : Len(x) = n - 1}, r \in RulePool}

RuleLists == ListsUpTo(MaxRules) \cup {<<r>> : r \in WideRules}

ConfigFrame ==
  UNCHANGED <<pc, attach_connected, present, booted, created, runtime, selected_vms,
              disconnected_devices, guest, held, driver, last, steps, persistent, disk,
              flow, links, config>>

ConfigInit ==
  /\ config = "base"
  /\ pc = "config"
  /\ attach_connected = FALSE
  /\ present = UsbDevs
  /\ booted = [v \in VMs |-> FALSE]
  /\ created = {}
  /\ runtime = [d \in Devs |-> None]
  /\ selected_vms = [i \in Pids |-> None]
  /\ disconnected_devices = {}
  /\ guest = [v \in VMs |-> {}]
  /\ held = {}
  /\ driver = [p \in PciDevs |-> "host"]
  /\ last = NoLast
  /\ steps = 0
  /\ query = NoQuery
  /\ persistent = FALSE
  /\ disk = NoDisk
  /\ flow = [f \in Flows |-> Idle]
  /\ links = <<>>

Eval_disabled ==
  /\ query = NoQuery
  /\ \E node \in Nodes :
       query' = [op |-> "_disabled", node |-> node, result |-> _disabled(node)]
  /\ ConfigFrame

Eval_match_usb ==
  /\ query = NoQuery
  /\ \E usb_info \in UsbInfos, usb_rule \in Matchers :
       query' = [op |-> "_match_usb", usb_info |-> usb_info, usb_rule |-> usb_rule,
                 result |-> _match_usb(usb_info, usb_rule)]
  /\ ConfigFrame

Eval_vm_for_usb_device ==
  /\ query = NoQuery
  /\ \E usbPassthrough \in RuleLists, usb_info \in LookupInfos :
       query' = [op |-> "vm_for_usb_device", usbPassthrough |-> usbPassthrough,
                 usb_info |-> usb_info,
                 result |-> vm_for_usb_device_in(usbPassthrough, usb_info)]
  /\ ConfigFrame

ConfigNext == Eval_disabled \/ Eval_match_usb \/ Eval_vm_for_usb_device

ConfigSpec == ConfigInit /\ [][ConfigNext]_vars

(***************************************************************************)
(* The state store on its own (devicestate.py): every mutator of            *)
(* DeviceState applied in any order, with and without persistence, and the  *)
(* process ending and a new DeviceState being constructed from db_path.     *)
(***************************************************************************)
StoreDevs == {"u2", "p2"}

StoreFrame ==
  UNCHANGED <<pc, attach_connected, present, booted, created, steps, query, persistent,
              flow, links, config>>

StoreInit ==
  /\ config = "base"
  /\ pc = "store"
  /\ attach_connected = FALSE
  /\ present = UsbDevs
  /\ booted = [v \in VMs |-> FALSE]
  /\ created = {}
  /\ runtime = [d \in Devs |-> None]
  /\ persistent \in BOOLEAN
  /\ disk \in {NoDisk} \cup {Document(j.selected_vms, j.disconnected_devices) : j \in StateFiles}
  /\ selected_vms = _load(persistent, disk).selected_vms
  /\ disconnected_devices = _load(persistent, disk).disconnected_devices
  /\ guest = [v \in VMs |-> {}]
  /\ held = {}
  /\ driver = [p \in PciDevs |-> "host"]
  /\ last = NoLast
  /\ steps = 0
  /\ query = NoQuery
  /\ flow = [f \in Flows |-> Idle]
  /\ links = <<>>

Store_set_vm_for_device(d, v) ==
  Commit(set_vm_for_device(Snapshot, d, v), "set_vm_for_device", d, v, FALSE) /\ StoreFrame
Store_remove_vm_for_device(d) ==
  Commit(remove_vm_for_device(Snapshot, d), "remove_vm_for_device", d, None, FALSE)
  /\ StoreFrame
Store_select_vm_for_device(d, v) ==
  Commit(select_vm_for_device(Snapshot, d, v), "select_vm_for_device", d, v, FALSE)
  /\ StoreFrame
Store_clear_selected_vm_for_device(d) ==
  Commit(clear_selected_vm_for_device(Snapshot, d), "clear_selected_vm_for_device", d,
         None, FALSE)
  /\ StoreFrame
Store_set_disconnected(d) ==
  Commit(set_disconnected(Snapshot, d), "set_disconnected", d, None, FALSE) /\ StoreFrame
Store_clear_disconnected(d) ==
  Commit(clear_disconnected(Snapshot, d), "clear_disconnected", d, None, FALSE)
  /\ StoreFrame

\* the process ends and starts again: DeviceState.__init__ empties the maps and _load
\* reads the two persistent collections from db_path
DeviceState_init ==
  /\ runtime' = [d \in Devs |-> None]
  /\ selected_vms' = _load(persistent, disk).selected_vms
  /\ disconnected_devices' = _load(persistent, disk).disconnected_devices
  /\ last' = [NoLast EXCEPT !.op = "__init__"]
  /\ UNCHANGED <<guest, held, driver, disk>>
  /\ StoreFrame

StoreNext ==
  \/ \E d \in StoreDevs, v \in VMs : Store_set_vm_for_device(d, v)
  \/ \E d \in StoreDevs : Store_remove_vm_for_device(d)
  \/ \E d \in StoreDevs, v \in VMs : Store_select_vm_for_device(d, v)
  \/ \E d \in StoreDevs : Store_clear_selected_vm_for_device(d)
  \/ \E d \in StoreDevs : Store_set_disconnected(d)
  \/ \E d \in StoreDevs : Store_clear_disconnected(d)
  \/ DeviceState_init

StoreSpec == StoreInit /\ [][StoreNext]_vars

(***************************************************************************)
(* The coroutines of the event loop in their VMM calls (vmm.py, qemulink.py). *)
(* API handlers submit their coroutine to the loop of the monitor            *)
(* (run_coroutine_threadsafe); a coroutine yields at every await, so the     *)
(* calls of different flows interleave at the awaits inside a QEMULink       *)
(* method.                                                                   *)
(***************************************************************************)
LinkFrame ==
  UNCHANGED <<pc, attach_connected, present, booted, created, runtime, selected_vms,
              disconnected_devices, guest, held, driver, last, steps, query, persistent,
              disk, config>>

LinkInit ==
  /\ config = "base"
  /\ pc = "links"
  /\ attach_connected = FALSE
  /\ present = UsbDevs
  /\ booted = [v \in VMs |-> TRUE]
  /\ created = {}
  /\ runtime = [d \in Devs |-> None]
  /\ selected_vms = [i \in Pids |-> None]
  /\ disconnected_devices = {}
  /\ guest = [v \in VMs |-> {}]
  /\ held = {}
  /\ driver = [p \in PciDevs |-> "host"]
  /\ last = NoLast
  /\ steps = 0
  /\ query = NoQuery
  /\ persistent = FALSE
  /\ disk = NoDisk
  /\ flow = [f \in Flows |-> Idle]
  /\ links = <<>>

\* vmm_add_device and its siblings: qemu = QEMULink(vm_socket) constructs a new object,
\* whose __init__ creates its own asyncio.Lock; the method called on it enters
\* "async with self._lock" when that lock is free, without yielding in between
QEMULink_call(f, v) ==
  LET link == Len(links) + 1
      constructed == Append(links, [socket_path |-> v, locked |-> FALSE])
  IN /\ flow[f].at = "idle"
     /\ Len(links) < MaxLinks
     /\ ~constructed[link].locked
     /\ links' = [constructed EXCEPT ![link].locked = TRUE]
     /\ flow' = [flow EXCEPT ![f] = [at |-> "query", vm |-> v, link |-> link]]
     /\ LinkFrame

\* the first awaited command of the method (info usb, query-pci) has been answered
qmp_execute(f) ==
  /\ flow[f].at = "query"
  /\ flow' = [flow EXCEPT ![f].at = "command"]
  /\ UNCHANGED links
  /\ LinkFrame

\* the last awaited command has been answered; the with block ends and frees the lock
lock_release(f) ==
  /\ flow[f].at = "command"
  /\ links' = [links EXCEPT ![flow[f].link].locked = FALSE]
  /\ flow' = [flow EXCEPT ![f] = Idle]
  /\ LinkFrame

LinkNext ==
  \/ \E f \in Flows, v \in VMs : QEMULink_call(f, v)
  \/ \E f \in Flows : qmp_execute(f)
  \/ \E f \in Flows : lock_release(f)

LinkSpec == LinkInit /\ [][LinkNext]_vars

(***************************************************************************)
(* QEMULink._execute attempt by attempt (qemulink.py:54-90).  query holds   *)
(* the locals of the call: the retry argument, the answers the VMM gave to *)
(* the attempts made so far, last_error, the number of sleeps, and how the *)
(* call ended.                                                             *)
(***************************************************************************)
vm_retry_count == 5
vm_retry_timeout == 1

Occupied == "PCI: slot 1 function 0 already occupied by pci-0000:01:00.0"
NotOccupied == "PCI: slot already occupied"
\* what an attempt can meet: a result, an error answer, a QMPError of the client
Answers == {"return", "GenericError", Occupied, NotOccupied, "QMPError"}

\* re.search(r"PCI: slot \d+ function \d+ already occupied by", str(last_error))
port_occupied(last_error) == last_error = Occupied

\* every variable but pc and query at rest
AtRest ==
  /\ config = "base"
  /\ attach_connected = FALSE
  /\ present = UsbDevs
  /\ booted = [v \in VMs |-> TRUE]
  /\ created = {}
  /\ runtime = [d \in Devs |-> None]
  /\ selected_vms = [i \in Pids |-> None]
  /\ disconnected_devices = {}
  /\ guest = [v \in VMs |-> {}]
  /\ held = {}
  /\ driver = [p \in PciDevs |-> "host"]
  /\ last = NoLast
  /\ steps = 0
  /\ persistent = FALSE
  /\ disk = NoDisk
  /\ flow = [f \in Flows |-> Idle]
  /\ links = <<>>

ExecInit ==
  /\ pc = "execute"
  /\ AtRest
  /\ \E retry \in BOOLEAN :
       query = [op |-> "_execute", retry |-> retry, answers |-> <<>>, last_error |-> "",
                slept |-> 0, state |-> "loop"]

\* variant: a slot that is occupied is retried like any other error
next_after_error_retry_occupied(retry, attempt, last_error) ==
  IF ~retry THEN "break"
  ELSE IF attempt < vm_retry_count THEN "sleep" ELSE "end"

\* what follows a failed attempt: the two break tests, the sleep, the end of the range
next_after_error(retry, attempt, last_error) ==
  IF ~retry THEN "break"
  ELSE IF port_occupied(last_error) THEN "break"
  ELSE IF attempt < vm_retry_count THEN "sleep" ELSE "end"

\* one pass through the body of the for loop whose command is answered with a result
execute_attempt_returns ==
  /\ query.op = "_execute" /\ query.state = "loop"
  /\ Len(query.answers) < vm_retry_count
  /\ query' = [query EXCEPT !.answers = Append(@, "return"), !.state = "returned"]
  /\ ConfigFrame

\* one pass through the body whose command fails with the error e
execute_attempt_fails(e) ==
  LET attempt == Len(query.answers) + 1
      next == next_after_error(query.retry, attempt, e)
  IN /\ query.op = "_execute" /\ query.state = "loop"
     /\ attempt <= vm_retry_count
     /\ query' = [query EXCEPT !.answers = Append(@, e), !.last_error = e,
                               !.slept = IF next = "sleep" THEN @ + vm_retry_timeout ELSE @,
                               !.state = IF next = "sleep" THEN "loop" ELSE "raised"]
     /\ ConfigFrame

ExecNext ==
  \/ execute_attempt_returns
  \/ \E e \in Answers \ {"return"} : execute_attempt_fails(e)

ExecSpec == ExecInit /\ [][ExecNext]_vars /\ WF_vars(ExecNext)

(***************************************************************************)
(* CrosvmLink.add_usb_device step by step (crosvmlink.py:25-138).  query    *)
(* holds the locals of the call: the retry counter i, the position in the  *)
(* loop body, the devices still to detach in the workaround, and counts of *)
(* the child processes run and of the sleeps.                              *)
(***************************************************************************)
CrosvmLink_vm_retry_count == 5
CrosvmLink_vm_retry_timeout == 1

\* the most devices a usb list answer names
MaxListed == 2

\* answers of 'crosvm usb attach': stdout ok / no_available_port / another word,
\* a non-zero return code, an OSError of the spawn
AttachAnswers == {"ok", "no_available_port", "unexpected", "returncode", "OSError"}
\* answers of 'crosvm usb detach'
DetachAnswers == {"ok", "no_such_device", "returncode", "OSError"}

CrosvmInit ==
  /\ pc = "crosvm"
  /\ AtRest
  /\ query = [op |-> "add_usb_device", i |-> 0, at |-> "list", todo |-> 0,
              attaches |-> 0, detaches |-> 0, slept |-> 0, error |-> ""]

\* the end of the loop body: sleep and count, or leave the loop and raise
retry_or_timeout(q) ==
  IF q.i < CrosvmLink_vm_retry_count
  THEN [q EXCEPT !.i = @ + 1, !.slept = @ + CrosvmLink_vm_retry_timeout, !.at = "list"]
  ELSE [q EXCEPT !.at = "raised", !.error = "Timeout"]

\* remove_usb_device_by_id raised RuntimeError inside the try of add_usb_device, whose
\* only except clause is for OSError
detach_failed(q, answer) == [q EXCEPT !.at = "raised", !.error = answer]

\* usb_list at the top of the loop body; listed says whether the device's vid:pid is named
crosvm_usb_list(listed) ==
  /\ query.op = "add_usb_device" /\ query.at = "list"
  /\ query' = [query EXCEPT !.at = IF listed THEN "returned" ELSE "attach"]
  /\ ConfigFrame

\* crosvm usb attach and the branches on its answer; n devices are named by the usb_list
\* of the workaround
crosvm_usb_attach(answer, n) ==
  /\ query.op = "add_usb_device" /\ query.at = "attach"
  /\ LET q == [query EXCEPT !.attaches = @ + 1] IN
     query' = IF answer = "ok" THEN [q EXCEPT !.at = "returned"]
              ELSE IF answer = "no_available_port" /\ n > 0
                   THEN [q EXCEPT !.at = "workaround", !.todo = n]
              ELSE retry_or_timeout(q)
  /\ ConfigFrame

\* one remove_usb_device_by_id of the workaround loop
crosvm_usb_detach(answer) ==
  /\ query.op = "add_usb_device" /\ query.at = "workaround"
  /\ LET q == [query EXCEPT !.detaches = @ + 1, !.todo = @ - 1] IN
     query' = IF answer # "ok" THEN detach_failed(q, answer)
              ELSE IF q.todo > 0 THEN q
              ELSE retry_or_timeout(q)
  /\ ConfigFrame

CrosvmNext ==
  \/ \E listed \in BOOLEAN : crosvm_usb_list(listed)
  \/ \E answer \in AttachAnswers, n \in 0..MaxListed : crosvm_usb_attach(answer, n)
  \/ \E answer \in DetachAnswers : crosvm_usb_detach(answer)

CrosvmSpec == CrosvmInit /\ [][CrosvmNext]_vars /\ WF_vars(CrosvmNext)

(***************************************************************************)
(* _autoselect_vm on its own (device.py:66-74): the stored selections of   *)
(* two devices and the allowedVms list of the matching rule are the        *)
(* inputs; query holds the call and its result.                            *)
(***************************************************************************)
\* the longest allowedVms list
MaxAllowed == 2

\* VM names a state file or a rule can carry; vm3 is not in the configuration any more
VmNames == VMs \cup {"vm3"}

\* allowedVms of a rule that vm_for_usb_device returns: never empty (config.py:269)
AllowedLists == UNION {[1..n -> VmNames] : n \in 1..MaxAllowed}

AutoDevs == {"u1", "u2"}

AutoInit ==
  /\ pc = "autoselect"
  /\ config = "base"
  /\ attach_connected = FALSE
  /\ present = UsbDevs
  /\ booted = [v \in VMs |-> TRUE]
  /\ created = {}
  /\ runtime = [d \in Devs |-> None]
  /\ \E f \in [AutoDevs -> VmNames \cup {None}] :
       selected_vms = [i \in Pids |-> IF \E d \in AutoDevs : persistent_id(d) = i
                                      THEN f[CHOOSE d \in AutoDevs : persistent_id(d) = i]
                                      ELSE None]
  /\ disconnected_devices = {}
  /\ guest = [v \in VMs |-> {}]
  /\ held = {}
  /\ driver = [p \in PciDevs |-> "host"]
  /\ last = NoLast
  /\ steps = 0
  /\ persistent = FALSE
  /\ disk = NoDisk
  /\ flow = [f \in Flows |-> Idle]
  /\ links = <<>>
  /\ query = NoQuery

Eval_autoselect_vm ==
  /\ pc = "autoselect" /\ query = NoQuery
  /\ \E d \in AutoDevs, allowed_vms \in AllowedLists :
       query' = [op |-> "_autoselect_vm", dev |-> d, allowed_vms |-> allowed_vms,
                 result |-> _autoselect_vm(Snapshot, d, allowed_vms)]
  /\ ConfigFrame

AutoNext == Eval_autoselect_vm

AutoSpec == AutoInit /\ [][AutoNext]_vars

(***************************************************************************)
(* One API connection (apiserver.py:142-170, 255-410): the thread of       *)
(* _client_handler takes one request line after the other.  query holds    *)
(* the requests taken, the response lines sent and whether the connection  *)
(* is still served.                                                        *)
(***************************************************************************)
\* the most request lines a client sends
MaxRequests == 2

ApiActions ==
  {"enable_notifications", "usb_list", "usb_attach", "usb_detach", "usb_suspend",
   "usb_resume", "pci_attach", "pci_detach", "pci_suspend", "pci_resume"}

\* request objects: the action (None: no action field), whether the device node or PCI
\* address, bus and port, and the vendor and product ids are given, and how the
\* orchestrator work of the request ends when it is started
Requests ==
  [action : ApiActions \cup {None, "reboot"}, node : BOOLEAN, bus_port : BOOLEAN,
   ids : BOOLEAN, work : {"done", "RuntimeError"}]

\* _on_usb_attach / _on_usb_detach: the branch on the fields, the assert of the last one
on_usb_request(msg) ==
  IF msg.node \/ msg.bus_port \/ msg.ids THEN msg.work ELSE "AssertionError"

\* _on_pci_attach / _on_pci_detach
on_pci_request(msg) ==
  IF msg.node \/ msg.ids THEN msg.work ELSE "AssertionError"

\* the handler of the action: how it ends
handler(msg) ==
  IF msg.action \in {"usb_attach", "usb_detach"} THEN on_usb_request(msg)
  ELSE IF msg.action \in {"pci_attach", "pci_detach"} THEN on_pci_request(msg)
  ELSE IF msg.action \in {"enable_notifications", "usb_list"} THEN "done"
  ELSE msg.work

\* handle_message: the response, or the exception that leaves it
handle_message(msg) ==
  IF msg.action = None THEN "failed"
  ELSE IF msg.action \notin ApiActions THEN "failed"
  ELSE IF handler(msg) = "done" THEN "ok"
  ELSE IF handler(msg) = "RuntimeError" THEN "failed"
  ELSE handler(msg)

ClientInit ==
  /\ pc = "client"
  /\ AtRest
  /\ query = [op |-> "_client_handler", requests |-> <<>>, responses |-> <<>>,
              serving |-> TRUE]

\* one pass of the inner loop of _client_handler: a request line is parsed, handled and
\* answered; an exception that is neither TypeError, ValueError nor OSError ends the thread
client_request(msg) ==
  /\ query.op = "_client_handler" /\ query.serving
  /\ Len(query.requests) < MaxRequests
  /\ query' = IF handle_message(msg) \in {"ok", "failed"}
              THEN [query EXCEPT !.requests = Append(@, msg),
                                 !.responses = Append(@, handle_message(msg))]
              ELSE [query EXCEPT !.requests = Append(@, msg), !.serving = FALSE]
  /\ ConfigFrame

ClientNext == \E msg \in Requests : client_request(msg)

ClientSpec == ClientInit /\ [][ClientNext]_vars

(***************************************************************************)
(* An API usb_attach and a udev remove of the same USB device as two       *)
(* coroutines of the event loop (device.py:231-257, 288-330,               *)
(* vhotplug.py:72-79).  Each action is the code between two awaits; query  *)
(* names the device and records whether a VMM command failed.              *)
(***************************************************************************)
RaceDevs == {"u1", "u2"}

RaceFrame ==
  UNCHANGED <<pc, config, attach_connected, booted, created, selected_vms,
              disconnected_devices, held, driver, last, steps, persistent, disk, links>>

RaceInit ==
  /\ pc = "race"
  /\ config = "base"
  /\ attach_connected = FALSE
  /\ present = UsbDevs
  /\ booted = [v \in VMs |-> TRUE]
  /\ created = {}
  /\ selected_vms = [i \in Pids |-> None]
  /\ disconnected_devices = {}
  /\ held = {}
  /\ driver = [p \in PciDevs |-> "host"]
  /\ last = NoLast
  /\ steps = 0
  /\ persistent = FALSE
  /\ disk = NoDisk
  /\ links = <<>>
  /\ flow = [f \in Flows |-> Idle]
  /\ \E d \in RaceDevs, v \in VMs \cup {None} :
       /\ query = [op |-> "race", dev |-> d, failed |-> FALSE]
       /\ runtime = [x \in Devs |-> IF x = d THEN v ELSE None]
       /\ guest = [w \in VMs |-> IF w = v THEN {d} ELSE {}]

\* _on_usb_attach submits attach_existing_usb_device: the device is found, the VM is
\* resolved, and _attach_device_to_vm runs up to its first await: the removal from the
\* current VM when that is another one, the vmm_add_device otherwise
usb_attach_submit(f, v) ==
  LET d == query.dev IN
  /\ f \in {"api1", "api2"} /\ flow[f].at = "idle"
  /\ d \in present
  /\ flow' = [flow EXCEPT ![f] = [at |-> IF runtime[d] \notin {None, v}
                                         THEN "vmm_remove" ELSE "vmm_add",
                                  vm |-> v, link |-> 0]]
  /\ UNCHANGED <<query, runtime, guest, present>>
  /\ RaceFrame

\* the removal from the current VM returns: remove_device drops the runtime entry, or
\* its RuntimeError is logged; _attach_device_to_vm goes on to vmm_add_device
usb_attach_removed(f, ok) ==
  LET d == query.dev IN
  /\ f \in {"api1", "api2"} /\ flow[f].at = "vmm_remove"
  /\ flow' = [flow EXCEPT ![f].at = "vmm_add"]
  /\ IF ok
     THEN /\ runtime' = [runtime EXCEPT ![d] = None]
          /\ guest' = [w \in VMs |-> guest[w] \ {d}]
          /\ UNCHANGED query
     ELSE /\ query' = [query EXCEPT !.failed = TRUE]
          /\ UNCHANGED <<runtime, guest>>
  /\ UNCHANGED present
  /\ RaceFrame

\* vmm_add_device returns: set_vm_for_device records the VM; a RuntimeError leaves the flow
usb_attach_added(f, ok) ==
  LET d == query.dev IN
  /\ f \in {"api1", "api2"} /\ flow[f].at = "vmm_add"
  /\ flow' = [flow EXCEPT ![f].at = "done"]
  /\ IF ok
     THEN /\ runtime' = [runtime EXCEPT ![d] = flow[f].vm]
          /\ guest' = [guest EXCEPT ![flow[f].vm] = @ \cup {d}]
          /\ UNCHANGED query
     ELSE /\ query' = [query EXCEPT !.failed = TRUE]
          /\ UNCHANGED <<runtime, guest>>
  /\ UNCHANGED present
  /\ RaceFrame

\* device_event, action "remove": remove_device reads the runtime entry; without one it
\* raises and the event is done, with one it awaits vmm_remove_device
udev_remove_begin ==
  LET d == query.dev IN
  /\ flow["monitor"].at = "idle"
  /\ d \in present
  /\ present' = present \ {d}
  /\ flow' = [flow EXCEPT !["monitor"] = [at |-> IF runtime[d] = None THEN "done"
                                                 ELSE "vmm_remove",
                                          vm |-> runtime[d], link |-> 0]]
  /\ UNCHANGED <<query, runtime, guest>>
  /\ RaceFrame

\* vmm_remove_device of the remove event returns: remove_vm_for_device, or the error is logged
udev_remove_end(ok) ==
  LET d == query.dev IN
  /\ flow["monitor"].at = "vmm_remove"
  /\ flow' = [flow EXCEPT !["monitor"].at = "done"]
  /\ IF ok
     THEN /\ runtime' = [runtime EXCEPT ![d] = None]
          /\ guest' = [guest EXCEPT ![flow["monitor"].vm] = @ \ {d}]
          /\ UNCHANGED query
     ELSE /\ query' = [query EXCEPT !.failed = TRUE]
          /\ UNCHANGED <<runtime, guest>>
  /\ UNCHANGED present
  /\ RaceFrame

RaceNext ==
  \/ \E f \in Flows, v \in VMs : usb_attach_submit(f, v)
  \/ \E f \in Flows, ok \in BOOLEAN : usb_attach_removed(f, ok)
  \/ \E f \in Flows, ok \in BOOLEAN : usb_attach_added(f, ok)
  \/ udev_remove_begin
  \/ \E ok \in BOOLEAN : udev_remove_end(ok)

RaceSpec == RaceInit /\ [][RaceNext]_vars

(***************************************************************************)
(* QEMULink.add_usb_device and remove_usb_device for two USB devices of    *)
(* one VM, their bus and device numbers drawn from 1..MaxBus and           *)
(* 1..MaxDev (qemulink.py:45-46, 199-235, 270-278).  query holds the two   *)
(* devices, the usb-host devices of the guest and, for every duplicate     *)
(* check that hit and every device_del, the device asked for and the one   *)
(* the guest device had been created for.                                  *)
(***************************************************************************)
MaxBus == 12
MaxDev == 23

BusDev == [busnum : 1..MaxBus, devnum : 1..MaxDev]

IdInit ==
  /\ AtRest
  /\ pc = "ids"
  /\ \E a, b \in BusDev :
       /\ a # b
       /\ query = [op |-> "ids", infos |-> <<a, b>>, usbhost |-> {}, hits |-> {}]

\* add_usb_device: "already attached" when the guest has a device with the id, else
\* device_add of a usb-host with hostbus, hostaddr and the id
qemu_add_usb_device(i) ==
  LET usb_info == query.infos[i]
      qemuid == usb_id(usb_info)
      found == {g \in query.usbhost : g.id = qemuid}
  IN /\ pc = "ids"
     /\ query' = IF found # {}
                 THEN [query EXCEPT !.hits = @ \cup {[asked |-> usb_info, got |-> g.host] : g \in found}]
                 ELSE [query EXCEPT !.usbhost = @ \cup {[id |-> qemuid, host |-> usb_info]}]
     /\ ConfigFrame

\* remove_usb_device: device_del of the id
qemu_remove_usb_device(i) ==
  LET usb_info == query.infos[i]
      qemuid == usb_id(usb_info)
      found == {g \in query.usbhost : g.id = qemuid}
  IN /\ pc = "ids"
     /\ found # {}
     /\ query' = [query EXCEPT !.usbhost = @ \ found,
                               !.hits = @ \cup {[asked |-> usb_info, got |-> g.host] : g \in found}]
     /\ ConfigFrame

IdNext ==
  \/ \E i \in 1..2 : qemu_add_usb_device(i)
  \/ \E i \in 1..2 : qemu_remove_usb_device(i)

IdSpec == IdInit /\ [][IdNext]_vars

(***************************************************************************)
(* QEMULink.add_pci_device and remove_pci_device_by_vid_did for two host   *)
(* PCI devices of one VM, their numeric vendor and device ids drawn from   *)
(* small sets (qemulink.py:334-364, 375-410, 440-451).  query holds the    *)
(* two devices, the root ports of the guest in the order query-pci lists   *)
(* them and, for every search that hit, the device asked for and the host  *)
(* device the guest device had been created for.                           *)
(***************************************************************************)
VendorIds == {0, 4318, 32902}
DeviceIds == {7298, 4025}
Addresses == <<"0000:01:00.0", "0000:01:00.1">>

EmptyPort == [qdev_id |-> "", vendor |-> 0, device |-> 0, host |-> ""]

TwinInit ==
  /\ AtRest
  /\ pc = "twins"
  /\ \E va, vb \in VendorIds, da, db \in DeviceIds :
       query = [op |-> "twins",
                infos |-> <<[address |-> Addresses[1], vendor_id |-> va, device_id |-> da],
                            [address |-> Addresses[2], vendor_id |-> vb, device_id |-> db]>>,
                ports |-> [b \in 1..NumBridges |-> EmptyPort],
                hits |-> {}]

\* walk_devices: the first guest device, in the order of query-pci, whose vendor and
\* device id are both set and equal to those of pci_info; 0 when there is none
walk_devices(ports, pci_info) ==
  LET m == {b \in DOMAIN ports :
              /\ ports[b] # EmptyPort
              /\ pci_info.vendor_id # 0 /\ ports[b].vendor # 0
              /\ pci_info.vendor_id = ports[b].vendor
              /\ pci_info.device_id # 0 /\ ports[b].device # 0
              /\ pci_info.device_id = ports[b].device}
  IN IF m = {} THEN 0 ELSE CHOOSE b \in m : \A c \in m : b <= c

\* add_pci_device: "already attached" when the search finds a guest device, else
\* device_add of a vfio-pci with the host address on the first empty root port
qemu_add_pci_device(i) ==
  LET pci_info == query.infos[i]
      found == walk_devices(query.ports, pci_info)
      free == {b \in DOMAIN query.ports : query.ports[b] = EmptyPort}
      port == CHOOSE b \in free : \A c \in free : b <= c
  IN /\ pc = "twins"
     /\ found # 0 \/ free # {}
     /\ query' = IF found # 0
                 THEN [query EXCEPT !.hits = @ \cup {[asked |-> pci_info.address,
                                                      got |-> query.ports[found].host]}]
                 ELSE [query EXCEPT !.ports[port] =
                         [qdev_id |-> "pci-" \o pci_info.address, vendor |-> pci_info.vendor_id,
                          device |-> pci_info.device_id, host |-> pci_info.address]]
     /\ ConfigFrame

\* remove_pci_device_by_vid_did: device_del of the qdev_id the search returns
qemu_remove_pci_device_by_vid_did(i) ==
  LET pci_info == query.infos[i]
      found == walk_devices(query.ports, pci_info)
  IN /\ pc = "twins"
     /\ found # 0
     /\ query' = [query EXCEPT !.ports[found] = EmptyPort,
                               !.hits = @ \cup {[asked |-> pci_info.address,
                                                 got |-> query.ports[found].host]}]
     /\ ConfigFrame

TwinNext ==
  \/ \E i \in 1..2 : qemu_add_pci_device(i)
  \/ \E i \in 1..2 : qemu_remove_pci_device_by_vid_did(i)

TwinSpec == TwinInit /\ [][TwinNext]_vars

(***************************************************************************)
(* Properties.                                                             *)
(***************************************************************************)
AttachableDevs == UsbDevs \cup PciDevs
HasCmd(cmds, c, d) == \E i \in 1..Len(cmds) : cmds[i].cmd = c /\ cmds[i].dev = d
HasNote(notes, ev, d) == \E i \in 1..Len(notes) : notes[i].event = ev /\ notes[i].dev = d
AttachedEvent(d) == IF IsUsb(d) THEN "usb_attached" ELSE "pci_attached"
DetachedEvent(d) == IF IsUsb(d) THEN "usb_detached" ELSE "pci_detached"

\* C1: no device is held by two VMs at once, whatever events, requests, VM restarts
\* and VMM command failures occurred: in a cross-VM move the device has left the old
\* guest before it enters the new one.
C1_NoDeviceInTwoGuests ==
  \A d \in AttachableDevs : Cardinality({v \in VMs : d \in guest[v]}) <= 1

\* C2: the runtime map holds x -> v exactly when a device_add of x on v has succeeded
\* and no device_del of x on v has succeeded since (stated for the USB map).
C2_RuntimeIffAdded ==
  \A u \in UsbDevs, v \in VMs : (runtime[u] = v) <=> (<<u, v>> \in held)

\* C3: while the persistent id of d is in disconnected_devices, no plug event and no
\* reconciler pass (startup, VM restart, usb_resume, pci_resume, IOMMU-group attach
\* within them) sends a device_add for d or records d in the runtime map.
ReconcilerOps == {"startup", "restart", "usb_resume", "pci_resume", "udev_add"}
C3_DisconnectedStaysOut ==
  [][\A d \in AttachableDevs :
       (persistent_id(d) \in disconnected_devices /\ last'.op \in ReconcilerOps)
       => /\ ~HasCmd(last'.cmds, "device_add", d)
          /\ runtime[d] = None => runtime'[d] = None]_vars

\* C4: a udev add of a USB device whose rule has targetVm = vm1 (booted), that is no
\* boot device and not disconnected, sends device_add with id usb<bus><dev> to vm1,
\* records the device under vm1, emits exactly one usb_attached, and the monitor loop
\* goes on.
C4_PlugAttaches ==
  [][\A u \in UsbDevs :
       (/\ last'.op = "udev_add" /\ last'.dev = u /\ u \notin present
        /\ vm_for_device(u).found /\ vm_for_device(u).target_vm = "vm1"
        /\ booted["vm1"] /\ ~is_boot_device(u)
        /\ persistent_id(u) \notin disconnected_devices)
       => /\ \E i \in 1..Len(last'.cmds) :
               last'.cmds[i] = [cmd |-> "device_add", vm |-> "vm1", dev |-> u,
                                id |-> "usb" \o ToString(UsbAttr[u].busnum)
                                             \o ToString(UsbAttr[u].devnum)]
          /\ runtime'[u] = "vm1"
          /\ Cardinality({i \in 1..Len(last'.notes) :
                            last'.notes[i].event = "usb_attached"
                            /\ last'.notes[i].dev = u}) = 1
          /\ pc' = "run"]_vars

\* C5: once a udev remove of a USB device the runtime map records has been processed,
\* the map has no entry for it and usb_detached was emitted; stated for the case the
\* claim singles out, a running guest that no longer has the device, so that
\* device_del answers "not found".
C5_UnplugClearsMap ==
  [][\A u \in UsbDevs :
       (/\ last'.op = "udev_remove" /\ last'.dev = u /\ u \in present /\ u \notin present'
        /\ runtime[u] # None /\ booted[runtime[u]] /\ u \notin guest[runtime[u]])
       => /\ runtime'[u] = None
          /\ HasNote(last'.notes, "usb_detached", u)]_vars

\* C6: attaching d to the VM that already holds it (runtime map d -> v, d in the guest
\* of v) sends no device_add, leaves the state as it is and emits no second *_attached.
C6_AttachIdempotent ==
  [][\A d \in AttachableDevs :
       (/\ runtime[d] # None /\ d \in guest[runtime[d]]
        /\ last'.op \in {"usb_attach", "pci_attach"} /\ last'.dev = d
        /\ last'.vm = runtime[d])
       => /\ ~HasCmd(last'.cmds, "device_add", d)
          /\ runtime' = runtime /\ selected_vms' = selected_vms
          /\ disconnected_devices' = disconnected_devices /\ guest' = guest
          /\ ~HasNote(last'.notes, AttachedEvent(d), d)]_vars

\* C7: a successful request to attach d, held by v1, to another VM v2 leaves d recorded
\* and held by v2 only, and the detached notification naming v1 comes strictly before
\* the attached notification naming v2.
C7_MoveDetachesFirst ==
  [][\A d \in AttachableDevs : \A v1, v2 \in VMs :
       (/\ v1 # v2 /\ runtime[d] = v1 /\ d \in guest[v1]
        /\ booted[v2]
        /\ last'.op \in {"usb_attach", "pci_attach"} /\ last'.dev = d /\ last'.vm = v2
        /\ last'.result = "ok")
       => /\ runtime'[d] = v2
          /\ d \notin guest'[v1]
          /\ \E i, j \in 1..Len(last'.notes) :
               /\ i < j
               /\ last'.notes[i] = [event |-> DetachedEvent(d), dev |-> d, vm |-> v1]
               /\ last'.notes[j] = [event |-> AttachedEvent(d), dev |-> d, vm |-> v2]]_vars

\* C8: a detach request for a device without an entry in the runtime map is answered
\* result=failed, sends no command to any VMM and leaves the runtime map, selected_vms,
\* disconnected_devices and the guests as they are; the error is "not attached" when the
\* device is in the system (a USB node that is unplugged is answered "not found in the
\* system" by the lookup that precedes the removal).
C8_DetachUnattachedFails ==
  [][\A d \in AttachableDevs :
       (last'.op \in {"usb_detach", "pci_detach"} /\ last'.dev = d /\ runtime[d] = None)
       => /\ last'.result = "failed"
          /\ last'.cmds = <<>>
          /\ runtime' = runtime /\ selected_vms' = selected_vms
          /\ disconnected_devices' = disconnected_devices
          /\ guest' = guest /\ held' = held
          /\ (d \in PciDevs \/ d \in present) => last'.error = "not attached"]_vars

\* the second of two consecutive detach requests has been answered
C8_SecondDetachAnswered ==
  /\ last.op = "usb_detach" /\ last.result = "failed" /\ last.error = "not attached"
  /\ last.dev \in present
  /\ persistent_id(last.dev) \in disconnected_devices
  /\ runtime[last.dev] = None

\* C9: a USB device whose rule has allowedVms = [vm1, vm2] and for which vm2 is the
\* persisted selection is, when plugged in again, attached to vm2 (booted) by the plug
\* event itself, without a usb_select_vm prompt.
C9_ReplugUsesSelection ==
  [][\A u \in UsbDevs :
       (/\ last'.op = "udev_add" /\ last'.dev = u /\ u \notin present
        /\ vm_for_device(u).found /\ vm_for_device(u).target_vm = None
        /\ SeqToSet(vm_for_device(u).allowed_vms) = {"vm1", "vm2"}
        /\ selected_vms[persistent_id(u)] = "vm2"
        /\ booted["vm2"] /\ ~is_boot_device(u)
        /\ persistent_id(u) \notin disconnected_devices)
       => /\ runtime'[u] = "vm2"
          /\ u \in guest'["vm2"]
          /\ ~HasNote(last'.notes, "usb_select_vm", u)]_vars

\* a present device the startup pass is to attach to v: first matching rule with
\* targetVm = v, no boot device, not permanently disconnected
Eligible(d, v) ==
  /\ d \in PciDevs \/ d \in present
  /\ vm_for_device(d).found /\ vm_for_device(d).target_vm = v
  /\ ~is_boot_device(d)
  /\ persistent_id(d) \notin disconnected_devices

StartupDone == pc = "run" /\ last.op = "startup" /\ attach_connected

C11_RestartReattaches ==
  [][\A d \in AttachableDevs, v \in VMs :
       (/\ last'.op = "restart" /\ attach_connected /\ last'.log = <<>>
        /\ v \in created /\ booted[v]
        /\ runtime[d] = v /\ <<d, v>> \in held /\ d \notin guest[v]
        /\ d \in PciDevs \/ d \in present)
       => \E i \in 1..Len(last'.cmds) :
            /\ last'.cmds[i].cmd = "device_add"
            /\ last'.cmds[i].dev = d /\ last'.cmds[i].vm = v]_vars

\* C12: every PCI device the runtime map records under a VM has vfio-pci as its kernel
\* driver.
C12_RecordedPciIsVfio ==
  \A p \in PciDevs : runtime[p] # None => driver[p] = "vfio-pci"

NoteCount(notes, ev, d, v) ==
  Cardinality({i \in 1..Len(notes) : notes[i] = [event |-> ev, dev |-> d, vm |-> v]})

\* C13: a handler run that sets the runtime map entry of d to v emits exactly one
\* *_attached(d, v), one that clears the entry d -> v emits exactly one *_detached(d, v),
\* and a notification is emitted only for an attach or detach that took effect in the
\* VMM: after *_attached(d, v) the guest of v has d, after *_detached(d, v) it has not.
C13_OneNotificationPerEffect ==
  [][\A d \in AttachableDevs, v \in VMs :
       /\ (runtime[d] # v /\ runtime'[d] = v)
          => NoteCount(last'.notes, AttachedEvent(d), d, v) = 1
       /\ (runtime[d] = v /\ runtime'[d] # v)
          => NoteCount(last'.notes, DetachedEvent(d), d, v) = 1
       /\ (last' # last /\ runtime'[d] = v
           /\ NoteCount(last'.notes, AttachedEvent(d), d, v) > 0)
          => d \in guest'[v]
       /\ (last' # last /\ runtime'[d] # v
           /\ NoteCount(last'.notes, DetachedEvent(d), d, v) > 0)
          => d \notin guest'[v]]_vars

\* a rule as the specification counts it enabled
SpecEnabled(node) == node.disable # "true" /\ node.enable # "false"

\* C14: vm_for_usb_device returns the policy of the first rule, in list order, that is
\* enabled, evaluates to true for the device and defines targetVm or allowedVms, and
\* nothing when there is no such rule.
C14_FirstEnabledRuleWins ==
  query.op = "vm_for_usb_device" =>
    LET rules == query.usbPassthrough
        Q == {i \in 1..Len(rules) :
                /\ SpecEnabled(rules[i])
                /\ \E j \in 1..Len(rules[i].allow) : _match_usb(query.usb_info, rules[i].allow[j])
                /\ ~\E j \in 1..Len(rules[i].deny) : _match_usb(query.usb_info, rules[i].deny[j])
                /\ rules[i].targetVm # None \/ rules[i].allowedVms # <<>>}
    IN IF Q = {} THEN ~query.result.found
       ELSE /\ query.result.found
            /\ \E i \in Q :
                 /\ \A j \in Q : i <= j
                 /\ query.result.target_vm = rules[i].targetVm
                 /\ query.result.allowed_vms = rules[i].allowedVms

\* C15: a rule evaluates to true for a device exactly when at least one of its allow
\* matchers matches the device and none of its deny matchers does (stated on the lookup
\* in a list of one enabled rule that defines targetVm).
C15_AllowAndNoDeny ==
  (/\ query.op = "vm_for_usb_device" /\ Len(query.usbPassthrough) = 1
   /\ ~_disabled(query.usbPassthrough[1]) /\ query.usbPassthrough[1].targetVm # None)
  => LET rule == query.usbPassthrough[1]
     IN query.result.found
        <=> /\ \E j \in 1..Len(rule.allow) : _match_usb(query.usb_info, rule.allow[j])
            /\ \A j \in 1..Len(rule.deny) : ~_match_usb(query.usb_info, rule.deny[j])

\* a device matched by an allow and by a deny matcher of the rule was looked up and
\* the rule did not match
C15_AllowedAndDenied ==
  /\ query.op = "vm_for_usb_device" /\ Len(query.usbPassthrough) = 1
  /\ ~_disabled(query.usbPassthrough[1]) /\ query.usbPassthrough[1].targetVm # None
  /\ \E j \in 1..Len(query.usbPassthrough[1].allow) :
       _match_usb(query.usb_info, query.usbPassthrough[1].allow[j])
  /\ \E j \in 1..Len(query.usbPassthrough[1].deny) :
       _match_usb(query.usb_info, query.usbPassthrough[1].deny[j])
  /\ Len(query.usbPassthrough[1].allow) = 2
  /\ ~query.result.found

\* C16: a node is treated as enabled exactly when disable is not true and enable is not
\* false.
C16_EnabledUnlessDisabled ==
  query.op = "_disabled" => (~query.result <=> SpecEnabled(query.node))

\* equality of two hexadecimal identifiers up to letter case
SameId(a, b) == a = b \/ {a, b} = {"046d", "046D"} \/ {a, b} = {"c52b", "C52B"}

\* C17: an enabled USB matcher that can match through its id group only (no bus, port or
\* device class) matches a device exactly when it gives both vendorId and productId and
\* the device's vid and pid equal them up to letter case.
C17_VidAndPid ==
  (/\ query.op = "_match_usb" /\ ~_disabled(query.usb_rule)
   /\ query.usb_rule.bus = 0 /\ query.usb_rule.port = 0 /\ query.usb_rule.deviceClass = 0)
  => (query.result
      <=> /\ query.usb_rule.vendorId # "" /\ query.usb_rule.productId # ""
          /\ SameId(query.usb_info.vid, query.usb_rule.vendorId)
          /\ SameId(query.usb_info.pid, query.usb_rule.productId))

\* a matcher written in upper case matched through the id group
C17_MatchedIgnoringCase ==
  /\ query.op = "_match_usb" /\ query.result
  /\ query.usb_rule.bus = 0 /\ query.usb_rule.port = 0 /\ query.usb_rule.deviceClass = 0
  /\ query.usb_rule.vendorId = "046D" /\ query.usb_info.vid = "046d"
  /\ query.usb_rule.productId = "C52B"

\* C18: an enabled USB matcher with bus and port that can match through that group only
\* (no complete id pair, no device class) matches a device exactly when the device's bus
\* number is the rule's bus and the first element of its port path is the rule's port.
C18_BusAndRootPort ==
  (/\ query.op = "_match_usb" /\ ~_disabled(query.usb_rule)
   /\ query.usb_rule.bus >= 1 /\ query.usb_rule.port >= 1
   /\ query.usb_rule.vendorId = "" /\ query.usb_rule.deviceClass = 0)
  => (query.result
      <=> /\ query.usb_info.busnum = query.usb_rule.bus
          /\ Len(query.usb_info.ports) >= 1
          /\ query.usb_info.ports[1] = query.usb_rule.port)

\* a device behind a hub matched by its root port, the second hop being another port
C18_MatchedByRootPort ==
  /\ query.op = "_match_usb" /\ query.result
  /\ query.usb_rule.vendorId = "" /\ query.usb_rule.deviceClass = 0
  /\ query.usb_rule.bus = 1 /\ query.usb_rule.port = 2
  /\ query.usb_info.ports = <<2, 1>>

\* no boot device enters a guest, is recorded, or has a device_add sent for it
BootDeviceStaysOut(u) ==
  /\ \A v \in VMs : u \notin guest'[v]
  /\ runtime'[u] = None
  /\ ~HasCmd(last'.cmds, "device_add", u)

\* an API usb_attach for a boot device is refused and changes no map
BootDeviceAttachRefused(u) ==
  (last'.op = "usb_attach" /\ last'.dev = u)
  => /\ last'.result = "failed"
     /\ runtime' = runtime /\ selected_vms' = selected_vms
     /\ disconnected_devices' = disconnected_devices

\* the plug event of a boot device raises nothing and the monitor loop goes on
BootDevicePlugSkipped(u) ==
  (last'.op = "udev_add" /\ last'.dev = u /\ u \notin present)
  => /\ last'.error = ""
     /\ pc' = "run"

\* C19: a USB device with a partition mounted at /boot is never attached to any VM: the
\* plug event and the reconciler passes skip it silently, and an API usb_attach for it
\* answers failed, sends no device_add, and leaves the runtime map, selected_vms and
\* disconnected_devices as they are.
C19_BootDeviceNeverAttached ==
  [][\A u \in UsbDevs :
       is_boot_device(u)
       => /\ BootDeviceStaysOut(u)
          /\ BootDeviceAttachRefused(u)
          /\ BootDevicePlugSkipped(u)]_vars

\* the step has completed an attach of d: _attach_device_to_vm reached its notification
AttachCompleted(d) == HasNote(last'.notes, AttachedEvent(d), d)

\* the persistent id of d enters disconnected_devices by a successful API detach of d only
DisconnectedAddedByDetach(d) ==
  (persistent_id(d) \notin disconnected_devices /\ persistent_id(d) \in disconnected_devices')
  => /\ last'.op \in {"usb_detach", "pci_detach"} /\ last'.dev = d
     /\ last'.result = "ok"

\* the persistent id of d leaves disconnected_devices by a completed attach of d only
DisconnectedRemovedByAttach(d) ==
  (persistent_id(d) \in disconnected_devices /\ persistent_id(d) \notin disconnected_devices')
  => AttachCompleted(d)

\* a successful API detach of d adds the id; a successful API attach of d removes it
DisconnectedFollowsRequest(d) ==
  /\ (last'.op \in {"usb_detach", "pci_detach"} /\ last'.dev = d /\ last'.result = "ok")
     => persistent_id(d) \in disconnected_devices'
  /\ (last'.op \in {"usb_attach", "pci_attach"} /\ last'.dev = d /\ last'.result = "ok")
     => persistent_id(d) \notin disconnected_devices'

\* unplug events, suspend requests and failed requests leave disconnected_devices alone
DisconnectedKept ==
  (\/ last'.op \in {"udev_remove", "usb_suspend", "pci_suspend"}
   \/ last'.result = "failed")
  => disconnected_devices' = disconnected_devices

\* C20: the persistent id of a device enters disconnected_devices only by a successful
\* API detach of the device (which always adds it) and leaves it only by an attach of the
\* device that ran to completion (a successful API attach always removes it); unplug
\* events, usb_suspend, pci_suspend and failed requests neither add nor remove it.
C20_DisconnectedChanges ==
  [][/\ \A d \in AttachableDevs :
          /\ DisconnectedAddedByDetach(d)
          /\ DisconnectedRemovedByAttach(d)
          /\ DisconnectedFollowsRequest(d)
     /\ DisconnectedKept]_vars

\* p2, left permanently detached by the earlier run that also selected vm2 for u2, has
\* been attached on request as the first request of this run, and its flag is gone
C20_FlaggedDeviceAttached ==
  /\ steps = 1 /\ ~attach_connected
  /\ selected_vms[persistent_id("u2")] = "vm2"
  /\ last.op = "pci_attach" /\ last.dev = "p2" /\ last.result = "ok"
  /\ "p2" \in guest["vm1"]
  /\ persistent_id("p2") \notin disconnected_devices

\* the document at db_path holds the two persistent collections as they are in memory,
\* and nothing else
DiskIsMemory ==
  /\ DOMAIN disk = {"exists", "selected_vms", "disconnected_devices"}
  /\ _load(TRUE, disk) = [selected_vms |-> selected_vms,
                          disconnected_devices |-> disconnected_devices]
  /\ Len(disk.disconnected_devices) = Cardinality(SeqToSet(disk.disconnected_devices))

StoreMutators ==
  {"set_vm_for_device", "remove_vm_for_device", "select_vm_for_device",
   "clear_selected_vm_for_device", "set_disconnected", "clear_disconnected"}

\* C21: with persistence enabled, after every mutator of the store the document on disk
\* equals selected_vms and disconnected_devices in memory and holds nothing of the
\* runtime maps, whose mutators leave the document as it is; a new process starts with
\* empty runtime maps and with the two collections as they were at the last mutation.
C21_DiskFollowsMemory ==
  [][persistent
     => /\ last'.op \in StoreMutators => DiskIsMemory'
        /\ last'.op \in {"set_vm_for_device", "remove_vm_for_device"} => disk' = disk
        /\ last'.op = "__init__"
           => /\ runtime' = [d \in Devs |-> None]
              /\ selected_vms' = selected_vms
              /\ disconnected_devices' = disconnected_devices]_vars

\* a new process has read back the selection of p2 and the disconnected u2 that the
\* mutators of the process before it wrote; no file it could start from held either
C21_ReloadedAfterMutation ==
  /\ persistent /\ last.op = "__init__"
  /\ selected_vms[persistent_id("p2")] = "vm1"
  /\ disconnected_devices = {persistent_id("u2"), persistent_id("p2")}
  /\ runtime = [d \in Devs |-> None]

\* the VMs a reconciling pass covers: all of them at startup, the restarted ones after
ReconciledVms == IF last'.op = "startup" THEN VMs ELSE created

InSequence(f, v) == flow[f].at \in {"query", "command"} /\ flow[f].vm = v

\* C23: under every interleaving of the monitor loop and the API requests, no two flows
\* are inside a command sequence against the control socket of the same VM at once.
C23_OneSequencePerSocket ==
  \A v \in VMs : Cardinality({f \in Flows : InSequence(f, v)}) <= 1

\* command i of the handler run is c, sent to v
IsCmd(cmds, i, c, v) == cmds[i].cmd = c /\ cmds[i].vm = v

\* command i is followed by a cont to the same VM
Resumed(cmds, i) ==
  \E j \in (i + 1)..Len(cmds) : IsCmd(cmds, j, "cont", cmds[i].vm)

\* the device_add / device_del of the members of an IOMMU group that is attached and
\* removed as a whole: the adds of the reconciling passes and the dels of the detaches
GroupCmd(op, c) ==
  \/ op \in {"startup", "restart", "pci_resume"} /\ c.cmd = "device_add"
  \/ op \in {"pci_detach", "pci_suspend"} /\ c.cmd = "device_del"

GroupMember(d) ==
  /\ d \in PciDevs /\ Len(get_iommu_group_devices(d)) > 1
  /\ vm_for_device(d).found /\ vm_for_device(d).pci_iommu_add_all

\* pause comes first: a group member's device_add / device_del follows a stop to its VM
PausedFirst(op, cmds) ==
  \A j \in 1..Len(cmds) :
    (GroupCmd(op, cmds[j]) /\ GroupMember(cmds[j].dev))
    => \E i \in 1..(j - 1) : IsCmd(cmds, i, "stop", cmds[j].vm)

GroupAttachedWith(p, q, v) ==
  /\ q \in PciDevs /\ q # p /\ p \in SeqToSet(get_iommu_group_devices(q))
  /\ vm_for_device(q).found /\ vm_for_device(q).pci_iommu_add_all
  /\ vm_for_device(q).target_vm = v

\* C25: a reconciling pass that attaches an IOMMU group to v leaves alone a member that
\* the runtime map records on another VM (which holds it, as the member's own rule says):
\* no device_del for it, no device_add of it on v, its runtime entry as before.
C25_MemberElsewhereSkipped ==
  [][\A p \in PciDevs, v \in VMs :
       (/\ last'.op \in {"startup", "restart", "pci_resume"}
        /\ \E q \in PciDevs : GroupAttachedWith(p, q, v)
        /\ runtime[p] \notin {None, v}
        /\ vm_for_device(p).target_vm = runtime[p]
        /\ p \in guest[runtime[p]])
       => /\ runtime'[p] = runtime[p]
          /\ ~HasCmd(last'.cmds, "device_del", p)
          /\ \A i \in 1..Len(last'.cmds) :
               ~(IsCmd(last'.cmds, i, "device_add", v) /\ last'.cmds[i].dev = p)]_vars

\* the step attached p: _attach_device_to_vm ran to its notification and p is recorded
AttachedNow(p) == HasNote(last'.notes, AttachedEvent(p), p) /\ runtime'[p] # None

\* the commands of the step to v hold a stop, later a device_add of every device of
\* members, and after them a cont
OnePauseWindow(cmds, v, members) ==
  \E i \in 1..Len(cmds), k \in 1..Len(cmds) :
    /\ i < k /\ IsCmd(cmds, i, "stop", v) /\ IsCmd(cmds, k, "cont", v)
    /\ \A m \in members :
         \E j \in (i + 1)..(k - 1) : IsCmd(cmds, j, "device_add", v) /\ cmds[j].dev = m

\* C26: whichever path attaches a PCI device whose rule sets pciIommuAddAll and whose
\* IOMMU group has several members (startup pass, restart pass, pci_resume, API
\* pci_attach), a run of it that starts with nothing attached and in which no command
\* fails records every member of the group on the same VM, all of them added inside one
\* pause / resume window of that VM.
C26_GroupAttachedOnEveryPath ==
  [][\A p \in PciDevs :
       (/\ last'.op \in {"startup", "restart", "pci_resume", "pci_attach"}
        /\ GroupMember(p) /\ AttachedNow(p) /\ booted[runtime'[p]]
        /\ runtime = [d \in Devs |-> None]
        /\ last'.log = <<>> /\ last'.error = "")
       => /\ \A m \in SeqToSet(get_iommu_group_devices(p)) : runtime'[m] = runtime'[p]
          /\ OnePauseWindow(last'.cmds, runtime'[p],
                            SeqToSet(get_iommu_group_devices(p)))]_vars

\* the call of _execute has ended
ExecEnded == query.state \in {"returned", "raised"}

\* what holds of a call of _execute at every moment
ExecBounded ==
  query.op = "_execute"
  => LET n == Len(query.answers) IN
     /\ n <= vm_retry_count
     /\ \A i \in 1..(n - 1) : query.answers[i] \notin {"return", Occupied}
     /\ ~query.retry => n <= 1
     /\ query.state = "returned" => query.answers[n] = "return"
     /\ query.state = "raised"
        => /\ query.answers[n] # "return" /\ query.last_error = query.answers[n]
           /\ n = vm_retry_count \/ ~query.retry \/ query.answers[n] = Occupied
     /\ ExecEnded => query.slept = (n - 1) * vm_retry_timeout

\* C27: _execute always terminates; it returns on the first attempt that succeeds, makes
\* at most 5 attempts with a sleep of 1 s between two of them, makes no further attempt
\* when retry is false or the error says the slot is occupied, and raises the last error
\* when no attempt succeeded.
C27_ExecuteEnds == []ExecBounded /\ <>ExecEnded

\* four attempts failed and were slept on, the fifth failed too and its error is raised
C27_RaisedAfterFiveAttempts ==
  /\ query.op = "_execute" /\ query.state = "raised"
  /\ Len(query.answers) = vm_retry_count /\ query.slept = 4 * vm_retry_timeout
  /\ query.answers[1] = "QMPError" /\ query.last_error = "GenericError"

\* the run tried to add the evdev device e to a VM and e is not in that VM afterwards
EvdevAddFailed(e) ==
  \E i \in 1..Len(last.cmds) :
    /\ last.cmds[i].dev = e /\ last.cmds[i].cmd = "query-pci"
    /\ e \notin guest[last.cmds[i].vm]

\* C28: an evdev add that finds no free bridge, or whose device_add is refused, is
\* reported to its caller: the pass that asked for it records the failure.
C28_EvdevFailureReported ==
  \A e \in EvdevDevs : EvdevAddFailed(e) => last.log # <<>>

\* C29: add_usb_device of crosvm ends its retries only by returning or, after five
\* retries, by raising Timeout: a failed detach of the workaround does not end it.
C29_OnlyTimeoutRaised ==
  query.op = "add_usb_device" /\ query.at = "raised"
  => query.error = "Timeout" /\ query.i = CrosvmLink_vm_retry_count

\* the devices a suspend request is about
SuspendKind(op) == IF op = "usb_suspend" THEN UsbDevs ELSE PciDevs

\* d has a runtime entry inside the request's scope and its rule lets it be suspended
SuspendTargets(d, vm) ==
  /\ runtime[d] # None
  /\ vm = None \/ runtime[d] = vm
  /\ vm_for_device(d).found /\ ~vm_for_device(d).skip_on_suspend

DeviceDel(cmds, d) == \E i \in 1..Len(cmds) : cmds[i].cmd = "device_del" /\ cmds[i].dev = d

SuspendGroupTargets(d, vm) ==
  \E p \in PciDevs :
    /\ SuspendTargets(p, vm) /\ vm_for_device(p).pci_iommu_add_all
    /\ Len(get_iommu_group_devices(p)) > 1 /\ d \in SeqToSet(get_iommu_group_devices(p))
    /\ runtime[d] \in {None, runtime[p]}

PassScope ==
  IF last'.op = "restart" THEN created
  ELSE IF last'.op \in {"usb_resume", "pci_resume"} /\ last'.vm # None THEN {last'.vm}
  ELSE {}

\* C31: an attach pass with a non-empty VM scope sends VMM commands only to VMs in the
\* scope and changes runtime entries only from or to a VM in the scope, in its USB, PCI
\* and evdev parts alike.
C31_PassStaysInScope ==
  [][PassScope # {} /\ steps' # steps
     => /\ \A i \in 1..Len(last'.cmds) : last'.cmds[i].vm \in PassScope
        /\ \A d \in Devs : runtime'[d] # runtime[d] => runtime'[d] \in PassScope]_vars

C33_VfioFailureStopsAttach ==
  [][\A i \in 1..Len(last'.cmds) :
       (last'.cmds[i].cmd = "device_add" /\ last'.cmds[i].dev \in PciDevs)
       => driver'[last'.cmds[i].dev] = "vfio-pci"]_vars

\* C34: an API attach request answered with result failed leaves the state store as it
\* was: the runtime map, selected_vms and disconnected_devices, in memory and on disk.
C34_FailedAttachChangesNothing ==
  [][last'.op \in {"usb_attach", "pci_attach"} /\ steps' # steps /\ last'.result = "failed"
     => /\ runtime' = runtime
        /\ selected_vms' = selected_vms
        /\ disconnected_devices' = disconnected_devices
        /\ disk' = disk]_vars

\* C35: every well-formed request object received on an open connection is answered with
\* exactly one response line, result ok or failed, and the connection stays served: this
\* for every action and every combination of present and missing fields.
C35_EveryRequestAnswered ==
  query.op = "_client_handler"
  => /\ query.serving
     /\ Len(query.responses) = Len(query.requests)
     /\ \A i \in 1..Len(query.responses) : query.responses[i] \in {"ok", "failed"}

\* C36: whatever fails while a udev event or a reconciling attach is handled, the
\* monitor loop does not end: every later event and restart signal is still handled.
C36_MonitorLoopNeverEnds == pc # "dead"

\* C37: once an attach flow and an unplug flow of the same USB device have both
\* completed, with no VMM command failed, the runtime map has no entry for the device
\* that is no longer present.
C37_NoEntryForUnpluggedDevice ==
  (/\ query.op = "race" /\ ~query.failed
   /\ \A f \in Flows : flow[f].at \in {"idle", "done"})
  => \A d \in RaceDevs : d \notin present => runtime[d] = None

\* C38: two USB devices with different (busnum, devnum) never get the same QEMU id: a
\* duplicate check that hits and a device_del always concern the guest device that was
\* created for the device asked for (another one is hit only when the two ids are equal).
C38_UsbIdInjective ==
  query.op = "ids" => \A h \in query.hits : h.got = h.asked

\* C39: with two host PCI devices on one QEMU VM, the one sharing the other's
\* vendor:device id included, an attach is treated as already attached only because of
\* the guest device created for that host device, and a removal deletes only the guest
\* device created for that host device.
C39_PciSearchFindsOwnDevice ==
  query.op = "twins" => \A h \in query.hits : h.got = h.asked

====
